---- MODULE Spec2Model ----
(***************************************************************************)
(* Model of bevy_hui's per-frame engines: the interaction timers and the   *)
(* style merge of styles.rs, the length interpolation lerp_val, and the    *)
(* sprite animation state machine of lib.rs / animation.rs with the        *)
(* animation set-up of build.rs.                                           *)
(*                                                                         *)
(* Time is counted in units of 10 ms (the smallest timer length the        *)
(* builder produces).  f32 values are modelled as exact rationals          *)
(* [x / q]; a ratio is a pair <<numerator, denominator>>.                  *)
(***************************************************************************)
EXTENDS Integers, Sequences, FiniteSets, TLC

VARIABLES
    mode,            \* which engine this behaviour exercises
    has_interaction, \* node -> BOOLEAN: the node carries an Interaction component (Button)
    interaction,     \* node -> "None" | "Hovered" | "Pressed" (written by the host's focus system)
    observer,        \* node -> Seq(node): InteractionObverser installed by finalize_relations
    hover_timer,     \* node -> [elapsed, max]
    pressed_timer,   \* node -> [elapsed, max]
    html_style,      \* node -> HtmlStyle [computed, hover, pressed, active]
    ui_active,       \* node -> BOOLEAN: UiActive marker present
    node_style,      \* node -> the components update_node_style writes (final style)
    ran,             \* systems of the Update schedule that already ran in this frame
    delta,           \* time.delta() of the current frame
    lerp_in,         \* arguments of the lerp_val call under test
    lerp_out,        \* its result
    anim,            \* the animated image node (ActiveAnimation, atlas index, style)
    ui,              \* the template instance the expression compiler works on
    text_io,         \* raw text, scope and result of the compile_content call under test
    scene,           \* the entity tree the slot systems work on
    tick,            \* the systems of the Update schedule run so far in this tick
    call             \* function, argument and result of the parser call under test

engineVars == <<has_interaction, interaction, observer, hover_timer, pressed_timer,
                html_style, ui_active, node_style, ran, delta>>
lerpVars == <<lerp_in, lerp_out>>
animVars == <<anim>>
compileVars == <<ui, text_io>>
worldVars == <<scene, tick, call>>
vars == <<mode, engineVars, lerpVars, animVars, compileVars, worldVars>>

----------------------------------------------------------------------------
(* Bounds *)

MaxDelta == 2
MaxDelay == 2
MaxStyles == 3
MaxLerpSteps == 3
MaxCells == 4
MaxFrames == 3
MaxIterations == 2
MaxPlaceholders == 2
MaxExprs == 2

(* Program constants *)

\* styles.computed.delay.max(0.01): 0.01 s is one time unit
MinTimerMax == 1
\* Duration::MAX; checked_add fails above it (never reached with bounded deltas)
DurationMAX == 2147483647
\* build_animation: duration: style.computed.duration / 1000.0
DurationDivisor == 1000
\* usize::MAX, the result of a wrapping 1 - 2 in a build without overflow checks
UsizeMAX == 2147483647

----------------------------------------------------------------------------
(* Exact rationals *)

Abs(i) == IF i < 0 THEN -i ELSE i

Min(a, b) == IF a <= b THEN a ELSE b

Max(a, b) == IF a >= b THEN a ELSE b

RECURSIVE GCD(_, _)
GCD(a, b) == IF b = 0 THEN a ELSE GCD(b, a % b)

\* the rational n/d (d > 0) in lowest terms
Rat(n, d) ==
    LET g == GCD(Abs(n), d)
    IN  IF n = 0 THEN <<0, 1>> ELSE <<n \div g, d \div g>>

RatLeq(a, b) == a[1] * b[2] <= b[1] * a[2]

----------------------------------------------------------------------------
(* Style values and directives (data::StyleAttr)                           *)
(* A payload is [tag, x, q]: a Val such as Px(x/q), or an enum keyword in   *)
(* tag.  A directive is [mod, kind, val] with mod the wrapping modifier.    *)

Val(tag, x) == [tag |-> tag, x |-> x, q |-> 1]

Keyword(tag) == [tag |-> tag, x |-> 0, q |-> 1]

Attr(mod, kind, val) == [mod |-> mod, kind |-> kind, val |-> val]

NoneVal == Keyword("NoneOption")

\* ComputedStyle::default(), restricted to the modelled fields
DefaultComputed ==
    [width       |-> Keyword("Auto"),
     display     |-> Keyword("Flex"),
     text_layout |-> NoneVal,
     delay       |-> 0,
     easing      |-> "Linear"]

DefaultHtmlStyle ==
    [computed |-> DefaultComputed, hover |-> <<>>, pressed |-> <<>>, active |-> <<>>]

\* Vec::iter().position(same discriminant): 0 when there is none
Position(list, kind) ==
    IF \E i \in 1..Len(list) : list[i].kind = kind
    THEN CHOOSE i \in 1..Len(list) :
            /\ list[i].kind = kind
            /\ \A j \in 1..(i - 1) : list[j].kind # kind
    ELSE 0

\* Vec::insert(index, x): x stands at index, the old entries move back
InsertAt(list, i, x) == SubSeq(list, 1, i - 1) \o <<x>> \o SubSeq(list, i, Len(list))

\* the Hover/Pressed/Active arms of add_style_attr
AddOverride(list, payload) ==
    LET p == Position(list, payload.kind)
    IN  IF p > 0 THEN InsertAt(list, p, payload) ELSE Append(list, payload)

add_style_attr(s, attr) ==
    LET payload == [attr EXCEPT !.mod = "none"]
    IN  CASE attr.mod = "hover"   -> [s EXCEPT !.hover = AddOverride(s.hover, payload)]
          [] attr.mod = "pressed" -> [s EXCEPT !.pressed = AddOverride(s.pressed, payload)]
          [] attr.mod = "active"  -> [s EXCEPT !.active = AddOverride(s.active, payload)]
          [] OTHER ->
                CASE attr.kind = "Width"      -> [s EXCEPT !.computed.width = attr.val]
                  [] attr.kind = "Display"    -> [s EXCEPT !.computed.display = attr.val]
                  [] attr.kind = "TextLayout" -> [s EXCEPT !.computed.text_layout = attr.val]
                  [] attr.kind = "Delay"      -> [s EXCEPT !.computed.delay = attr.val.x]
                  [] attr.kind = "Easing"     -> [s EXCEPT !.computed.easing = attr.val.tag]
                  [] OTHER -> s

\* impl From<Vec<StyleAttr>> for HtmlStyle
RECURSIVE HtmlStyleFrom(_, _)
HtmlStyleFrom(out, styles) ==
    IF styles = <<>> THEN out
    ELSE HtmlStyleFrom(add_style_attr(out, Head(styles)), Tail(styles))

----------------------------------------------------------------------------
(* Interpolation *)

\* lerp_val: (end - start).mul_add(ratio, start) for Percent/Percent and
\* Px/Px, the start value for every other pair
lerp_val(start, end, ratio) ==
    IF start.tag = end.tag /\ start.tag \in {"Percent", "Px"}
    THEN LET \* (end - start) as a rational over the common denominator
             dn == end.x * start.q - start.x * end.q
             dd == end.q * start.q
             \* dn/dd * ratio + start
             rn == dn * ratio[1] * start.q + start.x * dd * ratio[2]
             rd == dd * ratio[2] * start.q
             r  == Rat(rn, rd)
         IN  [tag |-> start.tag, x |-> r[1], q |-> r[2]]
    ELSE start

\* EasingCurve::new(0., 1., ease).sample(t), None outside the domain [0, 1]
EaseSample(ease, t) ==
    IF ~(RatLeq(<<0, 1>>, t) /\ RatLeq(t, <<1, 1>>)) THEN <<>>
    ELSE CASE ease = "Linear"      -> <<t>>
           [] ease = "QuadraticIn" -> <<Rat(t[1] * t[1], t[2] * t[2])>>
           [] OTHER -> <<>>

\* html_style.computed.easing.map(sample).flatten().unwrap_or(ratio)
Eased(easing, ratio) ==
    IF easing = "NoneOption" THEN ratio
    ELSE LET s == EaseSample(easing, ratio)
         IN  IF s = <<>> THEN ratio ELSE s[1]

----------------------------------------------------------------------------
(* Interaction timers *)

InteractionTimer_new(max) == [elapsed |-> 0, max |-> max]

fraction(t) == Rat(t.elapsed, t.max)

\* forward without the saturation at max
forwardUnclamped(t, d) ==
    [t EXCEPT !.elapsed = IF t.elapsed + d > DurationMAX THEN t.elapsed ELSE t.elapsed + d]

forward(t, d) ==
    [t EXCEPT !.elapsed = IF t.elapsed + d > DurationMAX
                          THEN t.elapsed
                          ELSE Min(t.elapsed + d, t.max)]

backward(t, d) ==
    [t EXCEPT !.elapsed = IF t.elapsed - d < 0 THEN 0 ELSE t.elapsed - d]

\* MoveTimers with the None arm leaving the pressed timer where it is
MoveTimersPressedStays(tm, sub, c, d) ==
    CASE c = "Pressed" ->
            [pressed |-> [tm.pressed EXCEPT ![sub] = forward(@, d)],
             hover   |-> [tm.hover   EXCEPT ![sub] = forward(@, d)]]
      [] c = "Hovered" ->
            [pressed |-> [tm.pressed EXCEPT ![sub] = backward(@, d)],
             hover   |-> [tm.hover   EXCEPT ![sub] = forward(@, d)]]
      [] OTHER ->
            [pressed |-> tm.pressed,
             hover   |-> [tm.hover   EXCEPT ![sub] = backward(@, d)]]

\* MoveTimers with the Hovered arm advancing the pressed timer as well
MoveTimersHoveredForward(tm, sub, c, d) ==
    CASE c \in {"Pressed", "Hovered"} ->
            [pressed |-> [tm.pressed EXCEPT ![sub] = forward(@, d)],
             hover   |-> [tm.hover   EXCEPT ![sub] = forward(@, d)]]
      [] OTHER ->
            [pressed |-> [tm.pressed EXCEPT ![sub] = backward(@, d)],
             hover   |-> [tm.hover   EXCEPT ![sub] = backward(@, d)]]

\* the body of one match arm: both timers of one subscriber
MoveTimers(tm, sub, c, d) ==
    CASE c = "Pressed" ->
            [pressed |-> [tm.pressed EXCEPT ![sub] = forward(@, d)],
             hover   |-> [tm.hover   EXCEPT ![sub] = forward(@, d)]]
      [] c = "Hovered" ->
            [pressed |-> [tm.pressed EXCEPT ![sub] = backward(@, d)],
             hover   |-> [tm.hover   EXCEPT ![sub] = forward(@, d)]]
      [] OTHER ->
            [pressed |-> [tm.pressed EXCEPT ![sub] = backward(@, d)],
             hover   |-> [tm.hover   EXCEPT ![sub] = backward(@, d)]]

\* subs.for_each(...)
RECURSIVE ForEachSub(_, _, _, _)
ForEachSub(tm, subs, c, d) ==
    IF subs = <<>> THEN tm
    ELSE ForEachSub(MoveTimers(tm, Head(subs), c, d), Tail(subs), c, d)

\* interactions.iter().for_each(...) over the entities in query order
RECURSIVE ForEachInteraction(_, _, _)
ForEachInteraction(tm, order, d) ==
    IF order = <<>> THEN tm
    ELSE LET entity == Head(order)
             subs   == observer[entity] \o <<entity>>
         IN  ForEachInteraction(ForEachSub(tm, subs, interaction[entity], d),
                                Tail(order), d)

----------------------------------------------------------------------------
(* The style merge *)

Absent == Keyword("Absent")

\* UiStyleQuery::apply_computed: the Node component is cloned from the
\* baseline; the TextLayout component is not touched
apply_computed(style, computed) ==
    [style EXCEPT !.width = computed.width, !.display = computed.display]

\* apply_interpolated writing the text layout only while its list is in effect
apply_interpolatedTextGated(style, ratio, computed, attr) ==
    CASE attr.kind = "Display" -> [style EXCEPT !.display = attr.val]
      [] attr.kind = "Width"   ->
            [style EXCEPT !.width = lerp_val(computed.width, attr.val, ratio)]
      [] attr.kind = "TextLayout" ->
            IF style.text_layout = Absent \/ ratio[1] = 0 THEN style
            ELSE [style EXCEPT !.text_layout = attr.val]
      [] OTHER -> style

\* apply_interpolated with the discrete fields gated on a positive ratio
apply_interpolatedGated(style, ratio, computed, attr) ==
    CASE attr.kind = "Display" ->
            IF ratio[1] > 0 THEN [style EXCEPT !.display = attr.val] ELSE style
      [] attr.kind = "Width"   ->
            [style EXCEPT !.width = lerp_val(computed.width, attr.val, ratio)]
      [] attr.kind = "TextLayout" ->
            IF style.text_layout = Absent \/ ratio[1] = 0 THEN style
            ELSE [style EXCEPT !.text_layout = attr.val]
      [] OTHER -> style

\* UiStyleQuery::apply_interpolated: one override written into the final style
apply_interpolated(style, ratio, computed, attr) ==
    CASE attr.kind = "Display" -> [style EXCEPT !.display = attr.val]
      [] attr.kind = "Width"   ->
            [style EXCEPT !.width = lerp_val(computed.width, attr.val, ratio)]
      [] attr.kind = "TextLayout" ->
            IF style.text_layout = Absent THEN style
            ELSE [style EXCEPT !.text_layout = attr.val]
      [] OTHER -> style

\* for x in list.iter() { apply_interpolated(entity, ratio, computed, x) }
RECURSIVE ApplyList(_, _, _, _)
ApplyList(style, ratio, computed, list) ==
    IF list = <<>> THEN style
    ELSE ApplyList(apply_interpolated(style, ratio, computed, Head(list)),
                   ratio, computed, Tail(list))

hover_ratio(n) == Eased(html_style[n].computed.easing, fraction(hover_timer[n]))

press_ratio(n) == Eased(html_style[n].computed.easing, fraction(pressed_timer[n]))

active_ratio(n) == IF ui_active[n] THEN <<1, 1>> ELSE <<0, 1>>

\* the loop body with the pressed overrides applied before the hover overrides
StyleOfPressedFirst(n) ==
    LET c  == html_style[n].computed
        s0 == apply_computed(node_style[n], c)
        s1 == ApplyList(s0, press_ratio(n), c, html_style[n].pressed)
        s2 == ApplyList(s1, hover_ratio(n), c, html_style[n].hover)
    IN  ApplyList(s2, active_ratio(n), c, html_style[n].active)

\* the loop body of update_node_style for one entity
StyleOf(n) ==
    LET c  == html_style[n].computed
        s0 == apply_computed(node_style[n], c)
        s1 == ApplyList(s0, hover_ratio(n), c, html_style[n].hover)
        s2 == ApplyList(s1, press_ratio(n), c, html_style[n].pressed)
    IN  ApplyList(s2, active_ratio(n), c, html_style[n].active)

----------------------------------------------------------------------------
(* Building the nodes (TemplateBuilder::build_node, finalize_relations) *)

Nodes == DOMAIN hover_timer

\* PressedTimer::new / HoverTimer::new(from_secs_f32(delay.max(0.01)))
BuildTimer(style) == InteractionTimer_new(Max(style.computed.delay, MinTimerMax))

\* Node::default() plus the TextLayout component inserted when the baseline has one
BuildNodeStyle(style) ==
    [width       |-> Keyword("Auto"),
     display     |-> Keyword("Flex"),
     text_layout |-> IF style.computed.text_layout = NoneVal
                     THEN Absent ELSE style.computed.text_layout]

\* the ascending sequence of the elements of a set of nodes (build order)
RECURSIVE SeqOf(_)
SeqOf(S) ==
    IF S = {} THEN <<>>
    ELSE LET m == CHOOSE x \in S : \A y \in S : x <= y
         IN  <<m>> \o SeqOf(S \ {m})

\* finalize_relations: the watched node gets the list of its watchers
BuildObserver(ns, watch) == [t \in ns |-> SeqOf({w \in ns : watch[w] = t})]

\* all orders in which a query may yield the entities of S
Orders(S) ==
    {o \in [1..Cardinality(S) -> S] : \A i, j \in 1..Cardinality(S) : o[i] = o[j] => i = j}

Systems == {"continues_interaction_checking", "update_node_style"}

Classifications == {"None", "Hovered", "Pressed"}

----------------------------------------------------------------------------
(* Actions of the style engine *)

\* the host's focus system writes a node's Interaction before Update runs
SetInteraction(n, c) ==
    /\ mode = "engine"
    /\ ran = {}
    /\ has_interaction[n]
    /\ interaction[n] # c
    /\ interaction' = [interaction EXCEPT ![n] = c]
    /\ UNCHANGED <<mode, has_interaction, observer, hover_timer, pressed_timer,
                   html_style, ui_active, node_style, ran, delta, lerpVars, animVars, compileVars, worldVars>>

\* the application inserts or removes the UiActive marker
SetActive(n) ==
    /\ mode = "engine"
    /\ ran = {}
    /\ ui_active' = [ui_active EXCEPT ![n] = ~@]
    /\ UNCHANGED <<mode, has_interaction, interaction, observer, hover_timer,
                   pressed_timer, html_style, node_style, ran, delta, lerpVars, animVars, compileVars, worldVars>>

continues_interaction_checking ==
    /\ mode = "engine"
    /\ "continues_interaction_checking" \notin ran
    /\ \E order \in Orders({n \in Nodes : has_interaction[n]}) :
          LET tm == ForEachInteraction([hover |-> hover_timer, pressed |-> pressed_timer],
                                       order, delta)
          IN  /\ hover_timer' = tm.hover
              /\ pressed_timer' = tm.pressed
    /\ ran' = ran \cup {"continues_interaction_checking"}
    /\ UNCHANGED <<mode, has_interaction, interaction, observer, html_style,
                   ui_active, node_style, delta, lerpVars, animVars, compileVars, worldVars>>

update_node_style ==
    /\ mode = "engine"
    /\ "update_node_style" \notin ran
    /\ node_style' = [n \in Nodes |-> StyleOf(n)]
    /\ ran' = ran \cup {"update_node_style"}
    /\ UNCHANGED <<mode, has_interaction, interaction, observer, hover_timer,
                   pressed_timer, html_style, ui_active, delta, lerpVars, animVars, compileVars, worldVars>>

\* the schedule starts the next frame with a new Time::delta
NextFrame(d) ==
    /\ mode = "engine"
    /\ ran = Systems
    /\ ran' = {}
    /\ delta' = d
    /\ UNCHANGED <<mode, has_interaction, interaction, observer, hover_timer,
                   pressed_timer, html_style, ui_active, node_style, lerpVars, animVars, compileVars, worldVars>>

EngineNext ==
    \/ \E n \in Nodes, c \in Classifications : SetInteraction(n, c)
    \/ \E n \in Nodes : SetActive(n)
    \/ continues_interaction_checking
    \/ update_node_style
    \/ \E d \in 1..MaxDelta : NextFrame(d)

----------------------------------------------------------------------------
(* Initial states *)

IdleLerp == /\ lerp_in = <<>>
            /\ lerp_out = <<>>

IdleAnim == anim = <<>>

IdleCompile == /\ ui = <<>>
               /\ text_io = <<>>

IdleWorld == /\ scene = <<>>
             /\ tick = <<>>
             /\ call = <<>>

\* the state after spawn_ui built the nodes ns from the style vectors styles
Built(ns, styles, watch, inter) ==
    LET hs == [n \in ns |-> HtmlStyleFrom(DefaultHtmlStyle, styles[n])]
    IN  /\ mode = "engine"
        /\ html_style = hs
        /\ hover_timer = [n \in ns |-> BuildTimer(hs[n])]
        /\ pressed_timer = [n \in ns |-> BuildTimer(hs[n])]
        /\ node_style = [n \in ns |-> BuildNodeStyle(hs[n])]
        /\ observer = BuildObserver(ns, watch)
        /\ has_interaction = inter
        /\ interaction = [n \in ns |-> "None"]
        /\ ui_active = [n \in ns |-> FALSE]
        /\ ran = {}
        /\ IdleLerp
        /\ IdleAnim
        /\ IdleCompile
        /\ IdleWorld

\* the watched node T and its watcher W of the timer scenarios
PairNodes == {1, 2}

\* Timers: every watch relation, Button/non-Button choice and delay of
\* two nodes without overrides
InitTimers ==
    LET ns == PairNodes
    IN  /\ \E dl \in [ns -> 0..MaxDelay],
              watch \in [ns -> ns \cup {0}],
              inter \in [ns -> BOOLEAN] :
                Built(ns, [n \in ns |-> <<Attr("none", "Delay", Val("secs", dl[n]))>>],
                      watch, inter)
        /\ delta \in 1..MaxDelta

SpecTimers == InitTimers /\ [][EngineNext]_vars

----------------------------------------------------------------------------
(* Properties of the interaction timers (SpecTimers) *)

\* the step in which continues_interaction_checking runs
TimerStep ==
    /\ "continues_interaction_checking" \notin ran
    /\ "continues_interaction_checking" \in ran'

\* w is in the observer list of t
Watches(w, t) == \E i \in 1..Len(observer[t]) : observer[t][i] = w

WatchesNone(n) == \A t \in Nodes : ~Watches(n, t)

SaturatingAdd(e, d, max) == IF e + d >= max THEN max ELSE e + d

SaturatingSub(e, d) == IF e <= d THEN 0 ELSE e - d

\* C3: in a tick of length delta, a node that carries an Interaction and
\* watches no other node gets both timers moved according to its own
\* classification: Pressed moves hover and pressed forward by delta, Hovered
\* moves hover forward and pressed backward, None moves both backward, each
\* move clamped to [0, max].
C3_TimersFollowClassification ==
    [][TimerStep =>
        \A n \in Nodes :
            (has_interaction[n] /\ WatchesNone(n)) =>
                LET h  == hover_timer[n]
                    p  == pressed_timer[n]
                    hf == SaturatingAdd(h.elapsed, delta, h.max)
                    hb == SaturatingSub(h.elapsed, delta)
                    pf == SaturatingAdd(p.elapsed, delta, p.max)
                    pb == SaturatingSub(p.elapsed, delta)
                IN  /\ hover_timer'[n].max = h.max
                    /\ pressed_timer'[n].max = p.max
                    /\ interaction[n] = "Pressed" =>
                          hover_timer'[n].elapsed = hf /\ pressed_timer'[n].elapsed = pf
                    /\ interaction[n] = "Hovered" =>
                          hover_timer'[n].elapsed = hf /\ pressed_timer'[n].elapsed = pb
                    /\ interaction[n] = "None" =>
                          hover_timer'[n].elapsed = hb /\ pressed_timer'[n].elapsed = pb]_vars

\* a hovered node whose pressed timer is on its way back while the hover
\* timer has advanced: the timers ran under Pressed and then under Hovered
C3_Witness ==
    \E n \in Nodes :
        /\ has_interaction[n] /\ WatchesNone(n)
        /\ "continues_interaction_checking" \in ran
        /\ interaction[n] = "Hovered"
        /\ hover_timer[n].elapsed = hover_timer[n].max
        /\ pressed_timer[n].elapsed > 0
        /\ pressed_timer[n].elapsed < pressed_timer[n].max

\* C4: every interaction timer satisfies 0 <= elapsed <= max, with max the
\* delay configured at build time raised to at least 0.01 s (one unit), so
\* the ratio elapsed / max lies in [0, 1].
C4_TimerWithinBounds ==
    \A n \in Nodes :
        \A t \in {hover_timer[n], pressed_timer[n]} :
            /\ 0 <= t.elapsed
            /\ t.elapsed <= t.max
            /\ t.max >= MinTimerMax
            /\ t.max = (IF html_style[n].computed.delay > MinTimerMax
                        THEN html_style[n].computed.delay ELSE MinTimerMax)
            /\ RatLeq(<<0, 1>>, fraction(t))
            /\ RatLeq(fraction(t), <<1, 1>>)

\* a pressed node whose timers were advanced by a delta longer than their
\* max and stand saturated at max
C4_Witness ==
    \E n \in Nodes :
        /\ has_interaction[n]
        /\ interaction[n] = "Pressed"
        /\ "continues_interaction_checking" \in ran
        /\ delta > hover_timer[n].max
        /\ hover_timer[n].elapsed = hover_timer[n].max
        /\ pressed_timer[n].elapsed = pressed_timer[n].max

\* C5: a node W that watches another node T and has the same delay has
\* timers equal to T's timers after any sequence of ticks and
\* classifications (W is driven by T's classification only).
C5_WatcherInLockStep ==
    \A w, t \in Nodes :
        (w # t /\ Watches(w, t) /\ hover_timer[w].max = hover_timer[t].max) =>
            /\ hover_timer[w] = hover_timer[t]
            /\ pressed_timer[w] = pressed_timer[t]

----------------------------------------------------------------------------
(* Style vectors of the markup nodes (XNode.styles) *)

Px(x) == Val("Px", x)

\* the directives a modelled node may carry: a baseline width, delay, easing
\* and text layout, and width / display / text-layout overrides
StyleUniverse ==
    { Attr("none", "Width", Px(10)),
      Attr("none", "Delay", Val("secs", MaxDelay)),
      Attr("none", "Easing", Keyword("QuadraticIn")),
      Attr("none", "TextLayout", Keyword("Left")),
      Attr("hover", "Width", Px(30)),
      Attr("pressed", "Width", Px(50)),
      Attr("active", "Width", Px(70)),
      Attr("hover", "Display", Keyword("None")),
      Attr("pressed", "Display", Keyword("Grid")),
      Attr("active", "Display", Keyword("Block")),
      Attr("pressed", "TextLayout", Keyword("Center")) }

StyleVecs == UNION {[1..k -> StyleUniverse] : k \in 0..MaxStyles}

\* Style: one Button with any style vector of at most MaxStyles directives
InitStyle ==
    /\ \E v \in StyleVecs :
          Built({1}, [n \in {1} |-> v], [n \in {1} |-> 0], [n \in {1} |-> TRUE])
    /\ delta \in 1..MaxDelta

SpecStyle == InitStyle /\ [][EngineNext]_vars

\* the style vectors of the twin nodes
TwinStyles ==
    { << Attr("none", "Delay", Val("secs", MaxDelay)),
         Attr("none", "Width", Px(10)),
         Attr("hover", "Width", Px(30)),
         Attr("pressed", "Display", Keyword("Grid")) >>,
      << Attr("none", "Width", Px(10)),
         Attr("none", "Easing", Keyword("QuadraticIn")),
         Attr("pressed", "Width", Px(50)),
         Attr("active", "Width", Px(70)) >>,
      << Attr("none", "Delay", Val("secs", MaxDelay)),
         Attr("none", "TextLayout", Keyword("Left")),
         Attr("pressed", "TextLayout", Keyword("Center")),
         Attr("hover", "Width", Px(30)) >> }

\* Twin: two Buttons built from the same markup node
InitTwin ==
    /\ \E v \in TwinStyles :
          Built({1, 2}, [n \in {1, 2} |-> v], [n \in {1, 2} |-> 0], [n \in {1, 2} |-> TRUE])
    /\ delta \in 1..MaxDelta

SpecTwin == InitTwin /\ [][EngineNext]_vars

----------------------------------------------------------------------------
(* Properties of the style merge (SpecStyle, SpecTwin) *)

\* the step in which update_node_style runs
StyleStep ==
    /\ "update_node_style" \notin ran
    /\ "update_node_style" \in ran'

HasKind(list, kind) == \E i \in 1..Len(list) : list[i].kind = kind

\* the target of the entry of that kind that stands last in the list
LastTarget(list, kind) ==
    LET i == CHOOSE k \in 1..Len(list) :
                /\ list[k].kind = kind
                /\ \A j \in (k + 1)..Len(list) : list[j].kind # kind
    IN  list[i].val

\* the width the merge order prescribes: the latest of active, pressed,
\* hover that overrides the width decides, else the baseline
MergedWidth(n) ==
    LET hs == html_style[n]
        c  == hs.computed
    IN  IF HasKind(hs.active, "Width")
        THEN lerp_val(c.width, LastTarget(hs.active, "Width"), active_ratio(n))
        ELSE IF HasKind(hs.pressed, "Width")
        THEN lerp_val(c.width, LastTarget(hs.pressed, "Width"), press_ratio(n))
        ELSE IF HasKind(hs.hover, "Width")
        THEN lerp_val(c.width, LastTarget(hs.hover, "Width"), hover_ratio(n))
        ELSE c.width

\* the list applied latest among those that hold an entry of that kind
LatestList(n, kind) ==
    LET hs == html_style[n]
    IN  IF HasKind(hs.active, kind) THEN hs.active
        ELSE IF HasKind(hs.pressed, kind) THEN hs.pressed
        ELSE hs.hover

Overridden(n, kind) ==
    \/ HasKind(html_style[n].hover, kind)
    \/ HasKind(html_style[n].pressed, kind)
    \/ HasKind(html_style[n].active, kind)

\* C1: update_node_style produces the final style as the baseline
\* overwritten by the hover, then the pressed, then the active overrides: a
\* field without override has the baseline value, and a field overridden in
\* several lists has the value produced by the list applied latest.
C1_MergeOrder ==
    [][StyleStep =>
        \A n \in Nodes :
            /\ node_style'[n].width = MergedWidth(n)
            /\ node_style'[n].display =
                  (IF Overridden(n, "Display")
                   THEN LastTarget(LatestList(n, "Display"), "Display")
                   ELSE html_style[n].computed.display)]_vars

\* a fully hovered and pressed node whose width is overridden by hover and
\* by pressed shows the pressed target
C1_Witness ==
    /\ mode = "engine"
    /\ \E n \in Nodes :
        /\ "update_node_style" \in ran
        /\ HasKind(html_style[n].hover, "Width")
        /\ HasKind(html_style[n].pressed, "Width")
        /\ html_style[n].computed.width = Px(10)
        /\ hover_timer[n].elapsed = hover_timer[n].max
        /\ pressed_timer[n].elapsed = pressed_timer[n].max
        /\ node_style[n].width = Px(50)

\* C2: the final style written in a tick depends only on the current
\* baseline, override lists, timer ratios and active marker: two nodes
\* built from the same markup whose timers and active markers are equal get
\* equal final styles whatever their earlier final styles were, and the
\* tick leaves the HtmlStyle (baseline and lists) as it was.
C2_NoHistory ==
    [][StyleStep =>
        /\ html_style' = html_style
        /\ \A m, n \in Nodes :
              (/\ html_style[m] = html_style[n]
               /\ hover_timer[m] = hover_timer[n]
               /\ pressed_timer[m] = pressed_timer[n]
               /\ ui_active[m] = ui_active[n]) =>
                  node_style'[m] = node_style'[n]]_vars

\* twins with different classifications whose timers met half-way: the
\* final width of both is the same interpolated value
C2_Witness ==
    /\ mode = "engine"
    /\ Nodes = {1, 2}
    /\ ran = Systems
    /\ interaction[1] # interaction[2]
    /\ hover_timer[1] = hover_timer[2]
    /\ pressed_timer[1] = pressed_timer[2]
    /\ hover_timer[1].elapsed > 0
    /\ hover_timer[1].elapsed < hover_timer[1].max
    /\ node_style[1] = node_style[2]
    /\ node_style[1].width \notin {Px(10), Px(30)}

----------------------------------------------------------------------------
(* lerp_val on its own: a transition sweeping the ratio from 0 to 1 *)

\* the units of parse_val; Auto carries no number
LengthUnits == {"Px", "Percent", "Vw", "Vh", "VMin", "VMax"}

LengthNumbers == {0, 10, 25}

Lengths == {Val(u, x) : u \in LengthUnits, x \in LengthNumbers} \cup {Keyword("Auto")}

\* a transition from start to end sampled at the ratios 0/steps .. steps/steps
InitLerp ==
    /\ mode = "lerp"
    /\ \E start \in Lengths, end \in Lengths, steps \in 1..MaxLerpSteps :
          lerp_in = [start |-> start, end |-> end, steps |-> steps, k |-> 0]
    /\ lerp_out = <<>>
    /\ has_interaction = <<>>
    /\ interaction = <<>>
    /\ observer = <<>>
    /\ hover_timer = <<>>
    /\ pressed_timer = <<>>
    /\ html_style = <<>>
    /\ ui_active = <<>>
    /\ node_style = <<>>
    /\ ran = {}
    /\ delta = 1
    /\ IdleAnim
    /\ IdleCompile
    /\ IdleWorld

\* one call lerp_val(start, end, k / steps)
LerpCall ==
    /\ mode = "lerp"
    /\ lerp_in.k <= lerp_in.steps
    /\ lerp_out' = Append(lerp_out,
                          lerp_val(lerp_in.start, lerp_in.end, Rat(lerp_in.k, lerp_in.steps)))
    /\ lerp_in' = [lerp_in EXCEPT !.k = @ + 1]
    /\ UNCHANGED <<mode, engineVars, animVars, compileVars, worldVars>>

SpecLerp == InitLerp /\ [][LerpCall]_vars

\* a / b <= c / d for lengths of one unit
LengthLeq(a, b) == a.x * b.q <= b.x * a.q

\* C6: for start and end of the same unit the interpolation returns start
\* at ratio 0 and end at ratio 1 and moves monotonically from the one to the
\* other as the ratio grows.
C6_LerpEndpointsMonotone ==
    (mode = "lerp" /\ lerp_in.start.tag = lerp_in.end.tag) =>
        /\ Len(lerp_out) >= 1 => lerp_out[1] = lerp_in.start
        /\ Len(lerp_out) = lerp_in.steps + 1 => lerp_out[Len(lerp_out)] = lerp_in.end
        /\ \A i \in 1..(Len(lerp_out) - 1) :
              IF LengthLeq(lerp_in.start, lerp_in.end)
              THEN LengthLeq(lerp_out[i], lerp_out[i + 1])
              ELSE LengthLeq(lerp_out[i + 1], lerp_out[i])

----------------------------------------------------------------------------
(* Sprite animation (build_animation, run_animations)                      *)
(* Time is counted in units of 1 / UnitsPerSecond seconds, so that every    *)
(* frame interval 1 / fps is a whole number of units.                       *)

FpsValues == {1, 2}

UnitsPerSecond == CHOOSE m \in FpsValues : \A f \in FpsValues : f <= m

\* Timer::new(Duration::from_secs_f32(1.0 / fps), TimerMode::Repeating)
Period(cfg) == UnitsPerSecond \div cfg.fps

Directions == {"Forward", "Reverse", "AlternateForward", "AlternateReverse"}

IsAlternate(direction) == direction \in {"AlternateForward", "AlternateReverse"}

calculate_starting_frame(start, end, direction) ==
    CASE direction = "Forward" -> start
      [] direction = "Reverse" -> end
      [] direction = "AlternateForward" -> start
      [] direction = "AlternateReverse" -> end

\* the ActiveAnimation and the atlas index of the ImageNode that build_node
\* creates for the style cfg
build_animation(cfg) ==
    LET starting_frame ==
            IF cfg.frames # <<>>
            THEN calculate_starting_frame(cfg.frames[1], cfg.frames[Len(cfg.frames)],
                                          cfg.direction)
            ELSE calculate_starting_frame(0, cfg.cells - 1, cfg.direction)
        starting_direction ==
            CASE cfg.direction = "AlternateForward" -> "Forward"
              [] cfg.direction = "AlternateReverse" -> "Reverse"
              [] OTHER -> cfg.direction
    IN  [cfg        |-> cfg,
         timer      |-> [elapsed |-> 0, finished |-> FALSE],
         direction  |-> starting_direction,
         frame      |-> starting_frame,
         iterations |-> cfg.iterations,
         duration   |-> Rat(cfg.duration * UnitsPerSecond, DurationDivisor),
         index      |-> starting_frame,
         outcome    |-> "built"]

\* Timer::tick of a repeating timer
TimerTick(t, d, period) ==
    LET e == t.elapsed + d
    IN  IF e >= period THEN [elapsed |-> e % period, finished |-> TRUE]
        ELSE [elapsed |-> e, finished |-> FALSE]

\* usize subtraction x - y: panics with overflow checks, wraps without
\* (only the distance 1 below zero occurs)
Underflows(x, y) == x - y < 0

\* Advance with the Alternate flip staying on the boundary frame
AdvanceFlipOnBoundary(a) ==
    LET cfg    == a.cfg
        listed == cfg.frames # <<>>
        n      == IF listed THEN Len(cfg.frames) ELSE cfg.cells
        at     == IF listed THEN a.frame ELSE a.index
        alt    == IsAlternate(cfg.direction)
    IN  CASE a.direction = "Forward" ->
                IF at = n - 1
                THEN IF alt
                     THEN IF Underflows(n, 2)
                          THEN IF cfg.overflow_checks
                               THEN [a EXCEPT !.direction = "Reverse", !.outcome = "panicked"]
                               ELSE [a EXCEPT !.direction = "Reverse", !.frame = UsizeMAX,
                                              !.iterations = @ - 1]
                          ELSE [a EXCEPT !.direction = "Reverse", !.frame = n - 1,
                                         !.iterations = @ - 1]
                     ELSE [a EXCEPT !.frame = 0, !.iterations = @ - 1]
                ELSE [a EXCEPT !.frame = @ + 1]
          [] a.direction = "Reverse" ->
                IF at = 0
                THEN IF alt
                     THEN [a EXCEPT !.direction = "Forward", !.frame = 0, !.iterations = @ - 1]
                     ELSE [a EXCEPT !.frame = n - 1, !.iterations = @ - 1]
                ELSE IF Underflows(a.frame, 1)
                     THEN IF cfg.overflow_checks
                          THEN [a EXCEPT !.outcome = "panicked"]
                          ELSE [a EXCEPT !.frame = UsizeMAX]
                     ELSE [a EXCEPT !.frame = @ - 1]
          [] OTHER -> a

\* Advance with the wrap of a plain direction leaving the iterations alone
AdvanceWrapFree(a) ==
    LET cfg    == a.cfg
        listed == cfg.frames # <<>>
        n      == IF listed THEN Len(cfg.frames) ELSE cfg.cells
        at     == IF listed THEN a.frame ELSE a.index
        alt    == IsAlternate(cfg.direction)
    IN  CASE a.direction = "Forward" ->
                IF at = n - 1
                THEN IF alt
                     THEN IF Underflows(n, 2)
                          THEN IF cfg.overflow_checks
                               THEN [a EXCEPT !.direction = "Reverse", !.outcome = "panicked"]
                               ELSE [a EXCEPT !.direction = "Reverse", !.frame = UsizeMAX,
                                              !.iterations = @ - 1]
                          ELSE [a EXCEPT !.direction = "Reverse", !.frame = n - 2,
                                         !.iterations = @ - 1]
                     ELSE [a EXCEPT !.frame = 0]
                ELSE [a EXCEPT !.frame = @ + 1]
          [] a.direction = "Reverse" ->
                IF at = 0
                THEN IF alt
                     THEN [a EXCEPT !.direction = "Forward", !.frame = 1, !.iterations = @ - 1]
                     ELSE [a EXCEPT !.frame = n - 1]
                ELSE IF Underflows(a.frame, 1)
                     THEN IF cfg.overflow_checks
                          THEN [a EXCEPT !.outcome = "panicked"]
                          ELSE [a EXCEPT !.frame = UsizeMAX]
                     ELSE [a EXCEPT !.frame = @ - 1]
          [] OTHER -> a

\* the match on active_animation.direction after a timer completion
Advance(a) ==
    LET cfg    == a.cfg
        listed == cfg.frames # <<>>
        n      == IF listed THEN Len(cfg.frames) ELSE cfg.cells
        at     == IF listed THEN a.frame ELSE a.index
        alt    == IsAlternate(cfg.direction)
    IN  CASE a.direction = "Forward" ->
                IF at = n - 1
                THEN IF alt
                     THEN IF Underflows(n, 2)
                          THEN IF cfg.overflow_checks
                               THEN [a EXCEPT !.direction = "Reverse", !.outcome = "panicked"]
                               ELSE [a EXCEPT !.direction = "Reverse", !.frame = UsizeMAX,
                                              !.iterations = @ - 1]
                          ELSE [a EXCEPT !.direction = "Reverse", !.frame = n - 2,
                                         !.iterations = @ - 1]
                     ELSE [a EXCEPT !.frame = 0, !.iterations = @ - 1]
                ELSE [a EXCEPT !.frame = @ + 1]
          [] a.direction = "Reverse" ->
                IF at = 0
                THEN IF alt
                     THEN [a EXCEPT !.direction = "Forward", !.frame = 1, !.iterations = @ - 1]
                     ELSE [a EXCEPT !.frame = n - 1, !.iterations = @ - 1]
                ELSE IF Underflows(a.frame, 1)
                     THEN IF cfg.overflow_checks
                          THEN [a EXCEPT !.outcome = "panicked"]
                          ELSE [a EXCEPT !.frame = UsizeMAX]
                     ELSE [a EXCEPT !.frame = @ - 1]
          [] OTHER -> a

\* node.texture_atlas.index = frame, or = frames[frame] (panics out of range)
WriteIndex(a) ==
    IF a.outcome = "panicked" THEN a
    ELSE IF a.cfg.frames = <<>>
    THEN [a EXCEPT !.index = a.frame, !.outcome = "advanced"]
    ELSE IF a.frame >= Len(a.cfg.frames)
    THEN [a EXCEPT !.outcome = "panicked"]
    ELSE [a EXCEPT !.index = a.cfg.frames[a.frame + 1], !.outcome = "advanced"]

\* the loop body with the duration budget charged before the iterations test
RunAnimationBudgetFirst(a, d) ==
    LET timed == a.cfg.duration > 0
        a1 == IF timed
              THEN [a EXCEPT !.duration = Rat(@[1] - d * @[2], @[2])]
              ELSE a
    IN  IF a.iterations = 0 THEN [a1 EXCEPT !.outcome = "out_of_iterations"]
        ELSE IF timed /\ a1.duration[1] <= 0 THEN [a1 EXCEPT !.outcome = "duration_up"]
        ELSE LET a2 == [a1 EXCEPT !.timer = TimerTick(@, d, Period(a.cfg))]
             IN  IF a.cfg.src = "animation.rs" /\ Len(a.cfg.frames) = 1
                 THEN [a2 EXCEPT !.outcome = "one_frame"]
                 ELSE IF a2.timer.finished
                 THEN WriteIndex(Advance(a2))
                 ELSE [a2 EXCEPT !.outcome = "waiting"]

\* the loop body with a spent duration budget no longer holding the frame
RunAnimationNoFreeze(a, d) ==
    IF a.iterations = 0 THEN [a EXCEPT !.outcome = "out_of_iterations"]
    ELSE LET timed == a.cfg.duration > 0
             a1 == IF timed
                   THEN [a EXCEPT !.duration = Rat(@[1] - d * @[2], @[2])]
                   ELSE a
             a2 == [a1 EXCEPT !.timer = TimerTick(@, d, Period(a.cfg))]
         IN  IF a.cfg.src = "animation.rs" /\ Len(a.cfg.frames) = 1
             THEN [a2 EXCEPT !.outcome = "one_frame"]
             ELSE IF a2.timer.finished
             THEN WriteIndex(Advance(a2))
             ELSE [a2 EXCEPT !.outcome = "waiting"]

\* the loop body of run_animations for one entity; cfg.src tells which of
\* the two copies of the system runs (animation.rs skips one-frame lists)
RunAnimation(a, d) ==
    IF a.iterations = 0 THEN [a EXCEPT !.outcome = "out_of_iterations"]
    ELSE LET timed == a.cfg.duration > 0
             a1 == IF timed
                   THEN [a EXCEPT !.duration = Rat(@[1] - d * @[2], @[2])]
                   ELSE a
         IN  IF timed /\ a1.duration[1] <= 0 THEN [a1 EXCEPT !.outcome = "duration_up"]
             ELSE LET a2 == [a1 EXCEPT !.timer = TimerTick(@, d, Period(a.cfg))]
                  IN  IF a.cfg.src = "animation.rs" /\ Len(a.cfg.frames) = 1
                      THEN [a2 EXCEPT !.outcome = "one_frame"]
                      ELSE IF a2.timer.finished
                      THEN WriteIndex(Advance(a2))
                      ELSE [a2 EXCEPT !.outcome = "waiting"]

\* the counters the model lets run: iterations below -1, the budget below
\* zero and the cursor below usize::MAX
WithinModel(a) ==
    /\ a.iterations >= -MaxIterations
    /\ a.duration[1] > -MaxDelta * a.duration[2]
    /\ (a.frame <= MaxCells \/ a.frame > UsizeMAX - MaxIterations)

run_animations(d) ==
    /\ mode = "animation"
    /\ anim.outcome # "panicked"
    /\ WithinModel(anim)
    /\ anim' = RunAnimation(anim, d)
    /\ delta' = d
    /\ UNCHANGED <<mode, has_interaction, interaction, observer, hover_timer, pressed_timer,
                   html_style, ui_active, node_style, ran, lerpVars, compileVars, worldVars>>

AnimNext == \E d \in 1..MaxDelta : run_animations(d)

\* the explicit frames lists: atlas indices below MaxFrames
FrameLists == UNION {[1..k -> 0..(MaxFrames - 1)] : k \in 1..MaxFrames}

\* the animation styles: an atlas of 1..MaxCells cells without frames list,
\* or an atlas of MaxCells cells with a frames list
AnimConfigs ==
    {[src |-> s, frames |-> fr, cells |-> c, direction |-> dir, iterations |-> it,
      duration |-> du, fps |-> fps, overflow_checks |-> oc] :
        s \in {"lib.rs", "animation.rs"},
        fr \in {<<>>}, c \in 1..MaxCells, dir \in Directions,
        it \in (-1)..MaxIterations, du \in {0, 1500}, fps \in FpsValues, oc \in BOOLEAN}
    \cup
    {[src |-> s, frames |-> fr, cells |-> c, direction |-> dir, iterations |-> it,
      duration |-> du, fps |-> fps, overflow_checks |-> oc] :
        s \in {"lib.rs", "animation.rs"},
        fr \in FrameLists, c \in {MaxCells}, dir \in Directions,
        it \in (-1)..MaxIterations, du \in {0, 1500}, fps \in FpsValues, oc \in BOOLEAN}

InitAnim ==
    /\ mode = "animation"
    /\ \E cfg \in AnimConfigs : anim = build_animation(cfg)
    /\ delta = 1
    /\ has_interaction = <<>>
    /\ interaction = <<>>
    /\ observer = <<>>
    /\ hover_timer = <<>>
    /\ pressed_timer = <<>>
    /\ html_style = <<>>
    /\ ui_active = <<>>
    /\ node_style = <<>>
    /\ ran = {}
    /\ IdleLerp
    /\ IdleCompile
    /\ IdleWorld

SpecAnim == InitAnim /\ [][AnimNext]_vars

----------------------------------------------------------------------------
(* Properties of the sprite animation (SpecAnim) *)

\* the step is a tick in which the frame timer was ticked and completed
Completion ==
    /\ anim'.outcome \in {"advanced", "panicked", "one_frame"}
    /\ anim'.timer.finished

FrameCount(cfg) == IF cfg.frames = <<>> THEN cfg.cells ELSE Len(cfg.frames)

\* last frame going Forward, first frame going Reverse
AtBoundary(a) ==
    \/ a.direction = "Forward" /\ a.frame = FrameCount(a.cfg) - 1
    \/ a.direction = "Reverse" /\ a.frame = 0

\* frames=[], 4x1 atlas, direction=AlternateForward, iterations=1
IsExample(cfg) ==
    /\ cfg.frames = <<>>
    /\ cfg.cells = 4
    /\ cfg.direction = "AlternateForward"
    /\ cfg.iterations = 1

\* C8: with an Alternate direction and N >= 2 frames, a frame-timer
\* completion at a boundary flips the sub-direction, puts the frame on the
\* adjacent interior frame (N-2 after the last, 1 after the first) and takes
\* exactly one iteration, so the boundary frame is not shown twice in a
\* row; the 4x1 AlternateForward animation with one iteration shows
\* 0, 1, 2, 3, then 2, and holds 2 once the iterations are used up.
C8_AlternateFlip ==
    [][(Completion /\ IsAlternate(anim.cfg.direction) /\ FrameCount(anim.cfg) >= 2) =>
        /\ AtBoundary(anim) =>
              /\ anim'.direction = (IF anim.direction = "Forward" THEN "Reverse" ELSE "Forward")
              /\ anim'.frame = (IF anim.direction = "Forward"
                                THEN FrameCount(anim.cfg) - 2 ELSE 1)
              /\ anim'.frame # anim.frame
              /\ anim'.iterations = anim.iterations - 1
              /\ anim'.outcome = "advanced"
              /\ anim.cfg.frames = <<>> => anim'.index # anim.index
        /\ IsExample(anim.cfg) =>
              /\ <<anim.index, anim'.index>> \in {<<0, 1>>, <<1, 2>>, <<2, 3>>, <<3, 2>>}
              /\ anim.index = 3 <=> anim'.iterations = 0]_vars

\* the example animation holding frame 2, in Reverse, after its iteration
\* was used up and a further tick found it out of iterations
C8_Witness ==
    /\ mode = "animation"
    /\ IsExample(anim.cfg)
    /\ anim.iterations = 0
    /\ anim.direction = "Reverse"
    /\ anim.frame = 2
    /\ anim.index = 2
    /\ anim.outcome = "out_of_iterations"

\* the frame and iterations a Forward or Reverse animation has after a
\* completion in state a
PlainAdvance(a) ==
    /\ AtBoundary(a) =>
          /\ anim'.frame = (IF a.direction = "Forward" THEN 0 ELSE FrameCount(a.cfg) - 1)
          /\ anim'.iterations = a.iterations - 1
    /\ ~AtBoundary(a) =>
          /\ anim'.frame = (IF a.direction = "Forward" THEN a.frame + 1 ELSE a.frame - 1)
          /\ anim'.iterations = a.iterations
    /\ anim'.direction = a.direction

\* C9 as stated: for a configured direction Forward or Reverse, every
\* frame-timer completion at the boundary wraps the frame to the opposite
\* end and takes exactly one iteration, and every completion away from the
\* boundary moves the frame by one position and leaves the iterations.
C9_PlainWrapAnyList ==
    [][(Completion /\ ~IsAlternate(anim.cfg.direction)) => PlainAdvance(anim)]_vars

\* C9 amended: the same for every animation whose frames list is empty or
\* has at least two entries (animation.rs skips a one-entry list: its
\* completions change neither frame nor iterations).
C9_PlainWrap ==
    [][(Completion /\ ~IsAlternate(anim.cfg.direction) /\ Len(anim.cfg.frames) # 1) =>
        PlainAdvance(anim)]_vars

\* a Forward animation of at least two frames that wrapped from its last
\* frame to frame 0 and paid its first iteration for it
C9_Witness ==
    /\ mode = "animation"
    /\ anim.cfg.direction = "Forward"
    /\ FrameCount(anim.cfg) >= 2
    /\ anim.cfg.iterations = MaxIterations
    /\ anim.outcome = "advanced"
    /\ anim.frame = 0
    /\ anim.iterations = anim.cfg.iterations - 1

\* C10: once the iterations counter is 0, no tick changes the frame, the
\* sub-direction, the iterations counter, the remaining duration or the
\* displayed atlas index.
C10_FrozenAtZero ==
    [][anim.iterations = 0 =>
        /\ anim'.frame = anim.frame
        /\ anim'.direction = anim.direction
        /\ anim'.iterations = anim.iterations
        /\ anim'.duration = anim.duration
        /\ anim'.index = anim.index
        /\ anim'.timer = anim.timer]_vars

\* an animation with a duration budget left that used up its iterations
\* and was found out of iterations by a later tick
C10_Witness ==
    /\ mode = "animation"
    /\ anim.cfg.iterations > 0
    /\ anim.cfg.duration > 0
    /\ anim.duration[1] > 0
    /\ anim.iterations = 0
    /\ anim.outcome = "out_of_iterations"

\* C11: an animation configured with iterations = -1 never stops: after
\* every tick its iterations counter is different from 0, no tick finds it
\* out of iterations, and every frame-timer completion advances the frame
\* and writes the displayed index (a one-entry frames list, which has no
\* other frame, may be held).
C11_NeverStops ==
    [][anim.cfg.iterations = -1 =>
        /\ anim'.iterations # 0
        /\ anim'.outcome # "out_of_iterations"
        /\ Completion =>
              \/ anim'.outcome = "advanced"
              \/ anim'.outcome = "one_frame" /\ Len(anim.cfg.frames) = 1]_vars

\* the budget left after the tick is the budget before it less the elapsed time
BudgetCharged ==
    anim'.duration = Rat(anim.duration[1] - delta' * anim.duration[2], anim.duration[2])

\* the tick leaves the animation on its frame
FrameHeld ==
    /\ anim'.frame = anim.frame
    /\ anim'.direction = anim.direction
    /\ anim'.iterations = anim.iterations
    /\ anim'.index = anim.index

\* C12 as stated: with a duration budget configured (> 0) every tick
\* decreases the budget by the elapsed time, and every tick in which the
\* remaining budget is <= 0 leaves frame, sub-direction, iterations and
\* displayed index unchanged.
C12_BudgetEveryTick ==
    [][anim.cfg.duration > 0 =>
        /\ BudgetCharged
        /\ (anim.duration[1] <= 0 \/ anim'.duration[1] <= 0) => FrameHeld]_vars

\* C12 amended: the same for every tick in which the iterations counter is
\* not 0 (a tick that finds the animation out of iterations does not charge
\* the budget).
C12_Budget ==
    [][(anim.cfg.duration > 0 /\ anim.iterations # 0) =>
        /\ BudgetCharged
        /\ (anim.duration[1] <= 0 \/ anim'.duration[1] <= 0) => FrameHeld]_vars

\* an animation that moved off its starting frame, then spent its budget
\* and was held by two ticks, with iterations left
C12_Witness ==
    /\ mode = "animation"
    /\ anim.cfg.duration > 0
    /\ anim.outcome = "duration_up"
    /\ anim.duration[1] < 0
    /\ anim.iterations # 0
    /\ anim.frame # build_animation(anim.cfg).frame

\* the values of the frames list
FrameValues(cfg) == {cfg.frames[i] : i \in 1..Len(cfg.frames)}

\* C13: with a non-empty frames list the frame cursor is always a position
\* of the list (0 <= cursor < length) and the displayed atlas index is
\* always one of the values of the list.
C13_CursorInList ==
    (mode = "animation" /\ anim.cfg.frames # <<>>) =>
        /\ 0 <= anim.frame
        /\ anim.frame < Len(anim.cfg.frames)
        /\ anim.index \in FrameValues(anim.cfg)

\* C35: an image animation whose style configures a duration of D seconds
\* (D > 0) is built with a duration budget of D seconds, so that it keeps
\* advancing frames until D seconds of tick time have elapsed and freezes
\* only then.  cfg.duration is the number parse_delay produced, in seconds.
C35_BudgetIsConfiguredDuration ==
    (mode = "animation" /\ anim.outcome = "built" /\ anim.cfg.duration > 0) =>
        anim.duration = Rat(anim.cfg.duration * UnitsPerSecond, 1)

----------------------------------------------------------------------------
(* Text content: strings are sequences of characters *)

\* no node of the style engine exists
IdleEngine ==
    /\ has_interaction = <<>>
    /\ interaction = <<>>
    /\ observer = <<>>
    /\ hover_timer = <<>>
    /\ pressed_timer = <<>>
    /\ html_style = <<>>
    /\ ui_active = <<>>
    /\ node_style = <<>>
    /\ ran = {}
    /\ delta = 1

\* position of the first c in s, 0 when s has none
IndexOf(s, c) ==
    IF \E i \in 1..Len(s) : s[i] = c
    THEN CHOOSE i \in 1..Len(s) : s[i] = c /\ \A j \in 1..(i - 1) : s[j] # c
    ELSE 0

Drop(s, n) == SubSeq(s, n + 1, Len(s))

\* multispace0: the input without its leading whitespace
multispace0(s) ==
    IF \E i \in 1..Len(s) : s[i] # " "
    THEN Drop(s, (CHOOSE i \in 1..Len(s) : s[i] # " " /\ \A j \in 1..(i - 1) : s[j] = " ") - 1)
    ELSE <<>>

\* str::trim_end
trim_end(s) ==
    IF \E i \in 1..Len(s) : s[i] # " "
    THEN SubSeq(s, 1, CHOOSE i \in 1..Len(s) : s[i] # " " /\ \A j \in (i + 1)..Len(s) : s[j] = " ")
    ELSE <<>>

\* str::trim
trim(s) == trim_end(multispace0(s))

\* tuple((take_until("{"), delimited(tag("{"), preceded(multispace0,
\* is_not("}")), tag("}")))): the literal before the first "{", the key up
\* to the next "}" and the rest of the input, or an error
placeholder(input) ==
    LET open   == IndexOf(input, "{")
        inner  == multispace0(Drop(input, open))
        close  == IndexOf(inner, "}")
    IN  IF open = 0 \/ close = 0 \/ close = 1
        THEN [ok |-> FALSE, literal |-> <<>>, key |-> <<>>, rest |-> input]
        ELSE [ok |-> TRUE, literal |-> SubSeq(input, 1, open - 1),
              key |-> SubSeq(inner, 1, close - 1), rest |-> Drop(inner, close)]

is_templated(input) == placeholder(input).ok

\* compile_content stopping after the first placeholder
compile_contentOnce(input, defs) ==
    LET parts == placeholder(input)
        key   == trim_end(parts.key)
    IN  IF ~parts.ok THEN input
        ELSE parts.literal \o (IF key \in DOMAIN defs THEN defs[key] ELSE <<>>) \o parts.rest

RECURSIVE compile_content(_, _)
compile_content(input, defs) ==
    LET parts == placeholder(input)
        key   == trim_end(parts.key)
    IN  IF ~parts.ok THEN input
        ELSE parts.literal
             \o (IF key \in DOMAIN defs THEN defs[key] ELSE <<>>)
             \o (IF Len(parts.rest) > 0 THEN compile_content(parts.rest, defs) ELSE <<>>)

\* the texts between the placeholders
Literals == {<<>>, <<"x">>, <<" ", "x", " ">>, <<"x", "}">>}

\* texts with braces that form no placeholder
BrokenTexts == {<<"{">>, <<"{", "}">>, <<"{", " ", "}">>, <<"x", "{", "a">>, <<"}", "{">>}

PropertyKeys == {<<"a">>, <<"b">>, <<"a", "b">>}

\* a placeholder: its key and the whitespace around it
Holes == [key : PropertyKeys, left : 0..1, right : 0..1]

\* the scopes (TemplateProperties) of the text node
Scopes ==
    {<<>>,
     (<<"a">> :> <<"1">>),
     (<<"a">> :> <<"1", "0">>) @@ (<<"b">> :> <<>>),
     (<<"a">> :> <<"{", "b", "}">>) @@ (<<"a", "b">> :> <<"y">>)}

Spaces(n) == [i \in 1..n |-> " "]

HoleText(h) == <<"{">> \o Spaces(h.left) \o h.key \o Spaces(h.right) \o <<"}">>

\* lit0 {k1} lit1 ... {kn} litn
RECURSIVE Assemble(_, _)
Assemble(lits, holes) ==
    IF holes = <<>> THEN lits[1]
    ELSE lits[1] \o HoleText(holes[1]) \o Assemble(Tail(lits), Tail(holes))

InitContent ==
    /\ mode = "content"
    /\ \E n \in 0..MaxPlaceholders :
         \E lits \in [1..(n + 1) -> Literals], holes \in [1..n -> Holes], defs \in Scopes :
            \E raw \in {Assemble(lits, holes)} \cup (IF n = 0 THEN BrokenTexts ELSE {}) :
                text_io = [lits |-> IF n = 0 THEN <<raw>> ELSE lits, holes |-> holes,
                           defs |-> defs, raw |-> raw, out |-> <<>>, called |-> FALSE]
    /\ ui = <<>>
    /\ IdleEngine
    /\ IdleLerp
    /\ IdleAnim
    /\ IdleWorld

\* one call compile_content(raw, defs)
ContentCall ==
    /\ mode = "content"
    /\ ~text_io.called
    /\ text_io' = [text_io EXCEPT !.out = compile_content(text_io.raw, text_io.defs),
                                  !.called = TRUE]
    /\ UNCHANGED <<mode, engineVars, lerpVars, animVars, ui, worldVars>>

SpecContent == InitContent /\ [][ContentCall]_vars

\* the scope's value of a key, the empty string when the key is undefined
ValueOf(defs, key) == IF key \in DOMAIN defs THEN defs[key] ELSE <<>>

\* lit0 v1 lit1 ... vn litn
RECURSIVE Substituted(_, _, _)
Substituted(lits, holes, defs) ==
    IF holes = <<>> THEN lits[1]
    ELSE lits[1] \o ValueOf(defs, holes[1].key) \o Substituted(Tail(lits), Tail(holes), defs)

----------------------------------------------------------------------------
(* Attributes: parse.rs attribute_from_parts, restricted to the width style *)

StartsWith(s, t) == Len(s) >= Len(t) /\ SubSeq(s, 1, Len(t)) = t

Digits == {"0", "1", "2", "3", "4", "5", "6", "7", "8", "9"}

DigitValue(c) == CHOOSE v \in 0..9 : <<"0", "1", "2", "3", "4", "5", "6", "7", "8", "9">>[v + 1] = c

\* the number of leading digits of s
DigitCount(s) ==
    IF \E i \in 1..Len(s) : s[i] \notin Digits
    THEN (CHOOSE i \in 1..Len(s) : s[i] \notin Digits /\ \A j \in 1..(i - 1) : s[j] \in Digits) - 1
    ELSE Len(s)

RECURSIVE NumberOf(_)
NumberOf(ds) ==
    IF ds = <<>> THEN 0 ELSE 10 * NumberOf(SubSeq(ds, 1, Len(ds) - 1)) + DigitValue(ds[Len(ds)])

NoStyle == Attr("none", "None", NoneVal)

Attribute(kind, name, text, style) ==
    [kind |-> kind, name |-> name, text |-> text, style |-> style]

ParseError == Attribute("Error", <<>>, <<>>, NoStyle)

\* the unit tags of parse_val in the order alt tries them
ValUnits ==
    << <<<<"p", "x">>, "Px">>, <<<<"%">>, "Percent">>, <<<<"v", "w">>, "Vw">>, <<<<"v", "h">>, "Vh">>,
       <<<<"v", "m", "i", "n">>, "VMin">>, <<<<"v", "m", "a", "x">>, "VMax">> >>

\* alt((map(tag(..), ..), ..)): the first entry of the table whose tag the
\* input starts with; 0 when there is none
FirstTag(input, table) ==
    IF \E i \in 1..Len(table) : StartsWith(input, table[i][1])
    THEN CHOOSE i \in 1..Len(table) :
            /\ StartsWith(input, table[i][1])
            /\ \A j \in 1..(i - 1) : ~StartsWith(input, table[j][1])
    ELSE 0

RECURSIVE Pow10(_)
Pow10(n) == IF n = 0 THEN 1 ELSE 10 * Pow10(n - 1)

\* nom::number::complete::float on unsigned decimals without exponent:
\* digits, digits with a fraction, or a fraction alone; len = 0 is no match
float(s) ==
    LET whole == DigitCount(s)
        dot   == Len(s) > whole /\ s[whole + 1] = "."
        frac  == IF dot THEN DigitCount(Drop(s, whole + 1)) ELSE 0
        taken == IF whole + frac = 0 THEN 0
                 ELSE IF dot THEN whole + 1 + frac
                 ELSE whole
    IN  [len   |-> taken,
         value |-> Rat(NumberOf(SubSeq(s, 1, whole) \o SubSeq(s, whole + 2, whole + 1 + frac)),
                       Pow10(frac))]

NoVal == [ok |-> FALSE, val |-> NoneVal, rest |-> <<>>]

\* parse_val: [ok, val, rest], rest being the input left over
parse_val(input) ==
    LET s    == multispace0(input)
        f    == float(s)
        unit == Drop(s, f.len)
        u    == FirstTag(unit, ValUnits)
    IN  IF StartsWith(s, <<"a", "u", "t", "o">>)
        THEN [ok |-> TRUE, val |-> Keyword("Auto"), rest |-> multispace0(Drop(s, 4))]
        ELSE IF StartsWith(s, <<"0">>)
        THEN [ok |-> TRUE, val |-> Val("Px", 0), rest |-> multispace0(Drop(s, 1))]
        ELSE IF f.len > 0 /\ u > 0
        THEN [ok |-> TRUE,
              val |-> [tag |-> ValUnits[u][2], x |-> f.value[1], q |-> f.value[2]],
              rest |-> multispace0(Drop(unit, Len(ValUnits[u][1])))]
        ELSE NoVal

\* parse_delay: [ok, secs, rest]; a number followed by s is read as seconds,
\* followed by ms as thousandths of a second, without unit as seconds
parse_delay(input) ==
    LET f    == float(input)
        unit == Drop(input, f.len)
    IN  IF f.len = 0 THEN [ok |-> FALSE, secs |-> <<0, 1>>, rest |-> input]
        ELSE IF StartsWith(unit, <<"s">>)
        THEN [ok |-> TRUE, secs |-> f.value, rest |-> Drop(unit, 1)]
        ELSE IF StartsWith(unit, <<"m", "s">>)
        THEN [ok |-> TRUE, secs |-> Rat(f.value[1], f.value[2] * 1000), rest |-> Drop(unit, 2)]
        ELSE [ok |-> TRUE, secs |-> f.value, rest |-> unit]

\* tuple((preceded(multispace0, parse_val), ..)) of n values
RECURSIVE Vals(_, _)
Vals(input, n) ==
    IF n = 0 THEN [ok |-> TRUE, vals |-> <<>>, rest |-> input]
    ELSE LET first == parse_val(input)
             more  == Vals(first.rest, n - 1)
         IN  IF first.ok /\ more.ok
             THEN [ok |-> TRUE, vals |-> <<first.val>> \o more.vals, rest |-> more.rest]
             ELSE [ok |-> FALSE, vals |-> <<>>, rest |-> input]

UiRect(top, right, bottom, left) ==
    [top |-> top, right |-> right, bottom |-> bottom, left |-> left]

\* parse_ui_rect: four values, else two (UiRect::axes), else one (UiRect::all)
parse_ui_rect(input) ==
    LET four == Vals(input, 4)
        two  == Vals(input, 2)
        one  == Vals(input, 1)
    IN  IF four.ok
        THEN [ok |-> TRUE, rest |-> four.rest,
              rect |-> UiRect(four.vals[1], four.vals[2], four.vals[3], four.vals[4])]
        ELSE IF two.ok
        THEN [ok |-> TRUE, rest |-> two.rest,
              rect |-> UiRect(two.vals[2], two.vals[1], two.vals[2], two.vals[1])]
        ELSE IF one.ok
        THEN [ok |-> TRUE, rest |-> one.rest,
              rect |-> UiRect(one.vals[1], one.vals[1], one.vals[1], one.vals[1])]
        ELSE [ok |-> FALSE, rest |-> input, rect |-> UiRect(NoneVal, NoneVal, NoneVal, NoneVal)]

\* the keyword tables of the enumerated style fields, in the order alt
\* tries the tags: parse_flex_direction, parse_flex_wrap, parse_auto_flow
EnumFields ==
    [flex_direction |->
        << <<<<"r", "o", "w">>, "Row">>,
           <<<<"c", "o", "l", "u", "m", "n">>, "Column">>,
           <<<<"c", "o", "l", "u", "m", "n", "_", "r", "e", "v", "e", "r", "s", "e">>,
             "ColumnReverse">>,
           <<<<"r", "o", "w", "_", "r", "e", "v", "e", "r", "s", "e">>, "RowReverse">>,
           <<<<"d", "e", "f", "a", "u", "l", "t">>, "Row">> >>,
     flex_wrap |->
        << <<<<"w", "r", "a", "p">>, "Wrap">>,
           <<<<"n", "o", "_", "w", "r", "a", "p">>, "NoWrap">>,
           <<<<"w", "r", "a", "p", "_", "r", "e", "v", "e", "r", "s", "e">>, "WrapReverse">> >>,
     grid_auto_flow |->
        << <<<<"r", "o", "w">>, "Row">>,
           <<<<"c", "o", "l", "u", "m", "n">>, "Column">>,
           <<<<"r", "o", "w", "_", "d", "e", "n", "s", "e">>, "RowDense">>,
           <<<<"c", "o", "l", "u", "m", "n", "_", "d", "e", "n", "s", "e">>, "ColumnDense">> >>]

\* the attribute names of the enumerated fields and the StyleAttr they give
EnumIdents ==
    << <<<<"f", "l", "e", "x", "_", "d", "i", "r", "e", "c", "t", "i", "o", "n">>,
         "flex_direction", "FlexDirection">>,
       <<<<"f", "l", "e", "x", "_", "w", "r", "a", "p">>, "flex_wrap", "FlexWrap">>,
       <<<<"g", "r", "i", "d", "_", "a", "u", "t", "o", "_", "f", "l", "o", "w">>,
         "grid_auto_flow", "GridAutoFlow">> >>

Modifier(prefix) ==
    CASE prefix = <<"p", "r", "e", "s", "s", "e", "d">> -> "pressed"
      [] prefix = <<"h", "o", "v", "e", "r">> -> "hover"
      [] prefix = <<"a", "c", "t", "i", "v", "e">> -> "active"
      [] OTHER -> "none"

\* parse_style: the width arm, the arms of the enumerated fields (only
\* parse_auto_flow skips leading whitespace), the catch-all error and the
\* modifier prefix
parse_style(prefix, ident, value) ==
    LET field == IF \E i \in 1..Len(EnumIdents) : ident = EnumIdents[i][1]
                 THEN CHOOSE i \in 1..Len(EnumIdents) : ident = EnumIdents[i][1]
                 ELSE 0
        text  == IF field # 0 /\ EnumIdents[field][2] = "grid_auto_flow"
                 THEN multispace0(value) ELSE value
        word  == IF field = 0 THEN 0 ELSE FirstTag(text, EnumFields[EnumIdents[field][2]])
    IN  IF ident = <<"w", "i", "d", "t", "h">> /\ parse_val(value).ok
        THEN Attribute("Style", <<>>, <<>>, Attr(Modifier(prefix), "Width", parse_val(value).val))
        ELSE IF word # 0
        THEN Attribute("Style", <<>>, <<>>,
                       Attr(Modifier(prefix), EnumIdents[field][3],
                            Keyword(EnumFields[EnumIdents[field][2]][word][2])))
        ELSE ParseError

\* parse_uncompiled: delimited(tag("{"), is_not("}"), tag("}"))
parse_uncompiled(value) ==
    /\ StartsWith(value, <<"{">>)
    /\ IndexOf(value, "}") > 2

\* separated_list1(tag(","), take_while1(not ',' and not '"')): the names
\* up to the first empty one
RECURSIVE as_string_list(_)
as_string_list(value) ==
    LET comma == IndexOf(value, ",")
        first == IF comma = 0 THEN value ELSE SubSeq(value, 1, comma - 1)
    IN  IF first = <<>> THEN <<>>
        ELSE IF comma = 0 THEN <<first>>
        ELSE <<first>> \o as_string_list(Drop(value, comma))

ActionIdents ==
    {<<"o", "n", "_", "e", "n", "t", "e", "r">>, <<"o", "n", "_", "e", "x", "i", "t">>,
     <<"o", "n", "_", "p", "r", "e", "s", "s">>, <<"o", "n", "_", "s", "p", "a", "w", "n">>,
     <<"o", "n", "_", "c", "h", "a", "n", "g", "e">>}

attribute_from_parts(prefix, ident, value) ==
    IF parse_uncompiled(value) THEN Attribute("Uncompiled", ident, value, NoStyle)
    ELSE IF prefix = <<"t", "a", "g">> THEN Attribute("Tag", ident, value, NoStyle)
    ELSE IF ident = <<"w", "a", "t", "c", "h">> THEN Attribute("Watch", <<>>, value, NoStyle)
    ELSE IF ident = <<"i", "d">> THEN Attribute("Id", <<>>, value, NoStyle)
    ELSE IF ident = <<"t", "a", "r", "g", "e", "t">> THEN Attribute("Target", <<>>, value, NoStyle)
    ELSE IF ident = <<"s", "r", "c">> THEN Attribute("Path", <<>>, value, NoStyle)
    ELSE IF ident \in ActionIdents
    THEN IF as_string_list(value) = <<>> THEN ParseError
         ELSE Attribute("Action", ident, as_string_list(value), NoStyle)
    ELSE parse_style(prefix, ident, value)

\* as_prop
as_prop(key, value) == Attribute("PropertyDefinition", key, value, NoStyle)

NoAttribute == Attribute("None", <<>>, <<>>, NoStyle)

\* AttrTokens::compile: the value of the token's key in the scope, read as
\* the attribute prefix:ident="value", or as a property definition when it
\* is no attribute; nothing when the scope does not define the key
Compile(expr, props) ==
    IF expr.key \notin DOMAIN props THEN NoAttribute
    ELSE LET attr == attribute_from_parts(expr.prefix, expr.ident, props[expr.key])
         IN  IF attr.kind = "Error" THEN as_prop(expr.ident, props[expr.key]) ELSE attr

----------------------------------------------------------------------------
(* The expression compiler: compile_context, compile_node, compile_text *)

\* root: the scope of the outer template; owner: a custom component in it,
\* root of its own template; child: a node of the owner's template
Entities == {"root", "owner", "child"}

Token(prefix, ident, key) == [prefix |-> prefix, ident |-> ident, key |-> key]

Event(kind, entity) == [kind |-> kind, entity |-> entity]

\* HashMap::insert
Insert(map, key, value) ==
    [k \in DOMAIN map \cup {key} |-> IF k = key THEN value ELSE map[k]]

\* HashMap::extend with (key, value) pairs in order
RECURSIVE Extend(_, _)
Extend(map, defs) ==
    IF defs = <<>> THEN map
    ELSE Extend(Insert(map, defs[1].name, defs[1].text), Tail(defs))

\* the context pass resolving against the owner's own map first
DefinitionOfOwnFirst(w, e, expr, parent_context) ==
    LET compiled == IF e \in DOMAIN w.props THEN Compile(expr, w.props[e]) ELSE NoAttribute
    IN  IF compiled.kind = "PropertyDefinition" THEN <<compiled>>
        ELSE IF compiled.kind # "None" THEN <<>>
        ELSE IF Compile(expr, parent_context).kind = "PropertyDefinition"
        THEN <<Compile(expr, parent_context)>>
        ELSE <<>>

\* the definitions one expression contributes in the context pass of e
DefinitionOf(w, e, expr, parent_context) ==
    LET compiled == Compile(expr, parent_context)
    IN  IF compiled.kind = "PropertyDefinition" THEN <<compiled>>
        ELSE IF compiled.kind # "None" THEN <<>>
        ELSE IF e \in DOMAIN w.props /\ Compile(expr, w.props[e]).kind = "PropertyDefinition"
        THEN <<Compile(expr, w.props[e])>>
        ELSE <<>>

RECURSIVE compiled_defintions(_, _, _, _)
compiled_defintions(w, e, exprs, parent_context) ==
    IF exprs = <<>> THEN <<>>
    ELSE DefinitionOf(w, e, exprs[1], parent_context)
         \o compiled_defintions(w, e, Tail(exprs), parent_context)

\* compile_context revisiting only the subscribers that own properties
RECURSIVE NotifyOwnersOnly(_, _, _)
NotifyOwnersOnly(w, e, subs) ==
    IF subs = <<>> THEN <<>>
    ELSE LET sub == subs[1]
         IN  (IF sub # e /\ sub \in DOMAIN w.props THEN <<Event("context", sub)>> ELSE <<>>)
             \o (IF sub \in DOMAIN w.content THEN <<Event("content", sub)>> ELSE <<>>)
             \o NotifyOwnersOnly(w, e, Tail(subs))

\* compile_context sending a context pass to every subscriber that owns
\* properties, the entity itself included
RECURSIVE NotifyContextToSelf(_, _, _)
NotifyContextToSelf(w, e, subs) ==
    IF subs = <<>> THEN <<>>
    ELSE LET sub == subs[1]
         IN  <<IF sub \in DOMAIN w.props
               THEN Event("context", sub) ELSE Event("node", sub)>>
             \o (IF sub \in DOMAIN w.content THEN <<Event("content", sub)>> ELSE <<>>)
             \o NotifyContextToSelf(w, e, Tail(subs))

\* the events compile_context triggers for the subscribers of e
RECURSIVE Notify(_, _, _)
Notify(w, e, subs) ==
    IF subs = <<>> THEN <<>>
    ELSE LET sub == subs[1]
         IN  <<IF sub # e /\ sub \in DOMAIN w.props
               THEN Event("context", sub) ELSE Event("node", sub)>>
             \o (IF sub \in DOMAIN w.content THEN <<Event("content", sub)>> ELSE <<>>)
             \o Notify(w, e, Tail(subs))

\* compile_context revisiting the first subscriber only
compile_contextFirstOnly(w, e) ==
    LET scope == w.scope[e]
        w1 == IF w.exprs[e] # <<>> /\ scope # "none" /\ scope \in DOMAIN w.props
                 /\ e \in DOMAIN w.props
              THEN [w EXCEPT !.props[e] =
                        Extend(@, compiled_defintions(w, e, w.exprs[e], w.props[scope]))]
              ELSE w
    IN  [w1 EXCEPT !.queue = Notify(w, e, SubSeq(w.subs[e], 1, 1)) \o @]

compile_context(w, e) ==
    LET scope == w.scope[e]
        w1 == IF w.exprs[e] # <<>> /\ scope # "none" /\ scope \in DOMAIN w.props
                 /\ e \in DOMAIN w.props
              THEN [w EXCEPT !.props[e] =
                        Extend(@, compiled_defintions(w, e, w.exprs[e], w.props[scope]))]
              ELSE w
    IN  [w1 EXCEPT !.queue = Notify(w, e, w.subs[e]) \o @]

\* the match on the compiled attribute in compile_node
ApplyAttribute(w, e, attr) ==
    CASE attr.kind = "Style"  -> [w EXCEPT !.style[e] = add_style_attr(@, attr.style)]
      [] attr.kind = "Action" -> [w EXCEPT !.listeners[e] = Insert(@, attr.name, attr.text)]
      [] attr.kind = "Path"   -> IF e \in DOMAIN w.image
                                 THEN [w EXCEPT !.image[e] = attr.text] ELSE w
      [] attr.kind = "Tag"    -> [w EXCEPT !.tags[e] = Insert(@, attr.name, attr.text)]
      [] OTHER -> w

\* the node pass giving up at the first expression that does not compile
RECURSIVE ApplyExpressionsUntilFailure(_, _, _, _)
ApplyExpressionsUntilFailure(w, e, exprs, context) ==
    IF exprs = <<>> THEN w
    ELSE IF Compile(exprs[1], context).kind \notin {"Style", "Action", "Path", "Tag"} THEN w
    ELSE ApplyExpressionsUntilFailure(ApplyAttribute(w, e, Compile(exprs[1], context)),
                                      e, Tail(exprs), context)

\* expressions.iter().for_each(...) of compile_node
RECURSIVE ApplyExpressions(_, _, _, _)
ApplyExpressions(w, e, exprs, context) ==
    IF exprs = <<>> THEN w
    ELSE ApplyExpressions(ApplyAttribute(w, e, Compile(exprs[1], context)),
                          e, Tail(exprs), context)

compile_node(w, e) ==
    IF e \notin DOMAIN w.style \/ w.scope[e] = "none" THEN w
    ELSE IF e \in DOMAIN w.props
    THEN ApplyExpressions(w, e, w.exprs[e], w.props[e])
    ELSE IF w.scope[e] \in DOMAIN w.props
    THEN ApplyExpressions(w, e, w.exprs[e], w.props[w.scope[e]])
    ELSE w

compile_text(w, e) ==
    IF e \notin DOMAIN w.content \/ w.scope[e] = "none" THEN w
    ELSE IF w.scope[e] \notin DOMAIN w.props THEN w
    ELSE [w EXCEPT !.text[e] = compile_content(trim(w.content[e]), w.props[w.scope[e]])]

\* the observer of the first queued event runs; the events it triggers run
\* before the events queued earlier
Dispatch ==
    /\ mode = "compile"
    /\ ui.queue # <<>>
    /\ LET ev == Head(ui.queue)
           w  == [ui EXCEPT !.queue = Tail(@), !.ran = Append(@, ev)]
       IN  ui' = CASE ev.kind = "context" -> compile_context(w, ev.entity)
                   [] ev.kind = "node"    -> compile_node(w, ev.entity)
                   [] OTHER               -> compile_text(w, ev.entity)
    /\ UNCHANGED <<mode, engineVars, lerpVars, animVars, text_io, worldVars>>

PropertyValues == {<<"1", "0", "p", "x">>, <<"5", "%">>, <<"x">>}

\* the host writes a property of a scope owner and triggers its context pass
SetProperty(e, key, value) ==
    /\ mode = "compile"
    /\ ui.queue = <<>>
    /\ ~ui.changed
    /\ e \in DOMAIN ui.props
    /\ ui' = [ui EXCEPT !.props[e] = Insert(@, key, value),
                        !.queue = <<Event("context", e)>>,
                        !.ran = <<>>,
                        !.previous = ui.style,
                        !.changed = TRUE]
    /\ UNCHANGED <<mode, engineVars, lerpVars, animVars, text_io, worldVars>>

CompileNext ==
    \/ Dispatch
    \/ \E e \in Entities, key \in {<<"a">>, <<"b">>}, value \in PropertyValues :
          SetProperty(e, key, value)

\* the property maps of root and owner when the owner's template is built
PropertyMaps ==
    {<<>>,
     (<<"a">> :> <<"1", "0", "p", "x">>),
     (<<"a">> :> <<"5", "%">>) @@ (<<"b">> :> <<"x">>)}

\* the expressions of the owner
OwnerTokens ==
    {Token(<<>>, <<"a">>, <<"a">>),
     Token(<<>>, <<"a">>, <<"b">>),
     Token(<<>>, <<"w", "i", "d", "t", "h">>, <<"a">>)}

\* the expressions of the child: a style, a tag, a path, a listener and an
\* id (which cannot be dynamic)
ChildTokens ==
    {Token(<<>>, <<"w", "i", "d", "t", "h">>, <<"a">>),
     Token(<<"t", "a", "g">>, <<"r">>, <<"b">>),
     Token(<<>>, <<"s", "r", "c">>, <<"a">>),
     Token(<<>>, <<"o", "n", "_", "p", "r", "e", "s", "s">>, <<"b">>),
     Token(<<>>, <<"i", "d">>, <<"a">>)}

ExprLists(tokens, max) == UNION {[1..n -> tokens] : n \in 0..max}

ChildKinds == {"image", "text"}

\* the instance after spawn_ui built the owner's template: build_node
\* registered the subscribers, spawn_ui triggered the owner's context pass
BuiltInstance(rootProps, ownerProps, ownerExprs, childExprs, kind, inRoot, selfSub) ==
    [props     |-> [e \in {"root", "owner"} |-> IF e = "root" THEN rootProps ELSE ownerProps],
     scope     |-> [e \in Entities |->
                        CASE e = "root" -> "none" [] e = "owner" -> "root" [] OTHER -> "owner"],
     exprs     |-> [e \in Entities |->
                        CASE e = "root" -> <<>> [] e = "owner" -> ownerExprs [] OTHER -> childExprs],
     subs      |-> [e \in Entities |->
                        CASE e = "root"  -> IF inRoot THEN <<"owner", "owner">> ELSE <<>>
                          [] e = "owner" -> (IF selfSub THEN <<"owner">> ELSE <<>>)
                                            \o (IF childExprs # <<>> THEN <<"child">> ELSE <<>>)
                                            \o (IF kind = "text" THEN <<"child">> ELSE <<>>)
                          [] OTHER -> <<>>],
     style     |-> [e \in Entities |-> DefaultHtmlStyle],
     tags      |-> [e \in Entities |-> <<>>],
     listeners |-> [e \in Entities |-> <<>>],
     image     |-> [e \in (IF kind = "image" THEN {"child"} ELSE {}) |-> <<>>],
     content   |-> [e \in (IF kind = "text" THEN {"child"} ELSE {}) |->
                        <<" ", "{", "a", "}", "-", "{", " ", "b", "}">>],
     text      |-> [e \in (IF kind = "text" THEN {"child"} ELSE {}) |->
                        <<"{", "a", "}", "-", "{", " ", "b", "}">>],
     queue     |-> <<Event("context", "owner")>>,
     ran       |-> <<>>,
     previous  |-> [e \in Entities |-> DefaultHtmlStyle],
     changed   |-> FALSE]

\* the instances with the given expression lists of owner and child
Instances(ownerLists, childLists) ==
    /\ mode = "compile"
    /\ \E rootProps \in PropertyMaps, ownerProps \in PropertyMaps,
          ownerExprs \in ownerLists, childExprs \in childLists,
          kind \in ChildKinds, inRoot \in BOOLEAN, selfSub \in BOOLEAN :
            /\ (inRoot \/ selfSub) <=> ownerExprs # <<>>
            /\ ui = BuiltInstance(rootProps, ownerProps, ownerExprs, childExprs, kind,
                                  inRoot, selfSub)
    /\ text_io = <<>>
    /\ IdleEngine
    /\ IdleLerp
    /\ IdleAnim
    /\ IdleWorld

\* a child with up to MaxExprs expressions under an owner with at most one
InitCompile == Instances(ExprLists(OwnerTokens, 1), ExprLists(ChildTokens, MaxExprs))

\* an owner with up to MaxExprs expressions over a child with at most one
InitContext == Instances(ExprLists(OwnerTokens, MaxExprs), ExprLists(ChildTokens, 1))

SpecContext == InitContext /\ [][CompileNext]_vars

SpecCompile == InitCompile /\ [][CompileNext]_vars

\* the expressions of a child with overrides: a width for each of the
\* hover, pressed and active lists
OverrideTokens ==
    {Token(<<"h", "o", "v", "e", "r">>, <<"w", "i", "d", "t", "h">>, <<"a">>),
     Token(<<"p", "r", "e", "s", "s", "e", "d">>, <<"w", "i", "d", "t", "h">>, <<"a">>),
     Token(<<"a", "c", "t", "i", "v", "e">>, <<"w", "i", "d", "t", "h">>, <<"b">>)}

\* a child with one override expression under an owner with at most one
InitRecompile == Instances(ExprLists(OwnerTokens, 1), [1..1 -> OverrideTokens])

SpecRecompile == InitRecompile /\ [][CompileNext]_vars

\* a top-level root after spawn_ui built its template: the root entity is
\* the node of the template's root element (build_node gives it no
\* TemplateScope and, with expressions, lists it in its own subscriber
\* list); owner is a plain node of the template and child a node inside it,
\* both with the root as scope
BuiltRoot(rootProps, rootExprs, childExprs, kind) ==
    [props     |-> [e \in {"root"} |-> rootProps],
     scope     |-> [e \in Entities |-> IF e = "root" THEN "none" ELSE "root"],
     exprs     |-> [e \in Entities |->
                        CASE e = "root" -> rootExprs [] e = "owner" -> <<>> [] OTHER -> childExprs],
     subs      |-> [e \in Entities |->
                        IF e = "root"
                        THEN (IF rootExprs # <<>> THEN <<"root">> ELSE <<>>)
                             \o (IF childExprs # <<>> THEN <<"child">> ELSE <<>>)
                             \o (IF kind = "text" THEN <<"child">> ELSE <<>>)
                        ELSE <<>>],
     style     |-> [e \in Entities |-> DefaultHtmlStyle],
     tags      |-> [e \in Entities |-> <<>>],
     listeners |-> [e \in Entities |-> <<>>],
     image     |-> [e \in (IF kind = "image" THEN {"child"} ELSE {}) |-> <<>>],
     content   |-> [e \in (IF kind = "text" THEN {"child"} ELSE {}) |->
                        <<" ", "{", "a", "}", "-", "{", " ", "b", "}">>],
     text      |-> [e \in (IF kind = "text" THEN {"child"} ELSE {}) |->
                        <<"{", "a", "}", "-", "{", " ", "b", "}">>],
     queue     |-> <<Event("context", "root")>>,
     ran       |-> <<>>,
     previous  |-> [e \in Entities |-> DefaultHtmlStyle],
     changed   |-> FALSE]

\* a root element with at most one expression over a child with up to MaxExprs
InitInstantiate ==
    /\ mode = "compile"
    /\ \E rootProps \in PropertyMaps, rootExprs \in ExprLists(ChildTokens, 1),
          childExprs \in ExprLists(ChildTokens, MaxExprs), kind \in ChildKinds :
            ui = BuiltRoot(rootProps, rootExprs, childExprs, kind)
    /\ text_io = <<>>
    /\ IdleEngine
    /\ IdleLerp
    /\ IdleAnim
    /\ IdleWorld

SpecInstantiate == InitInstantiate /\ [][CompileNext]_vars

\* the property map a node's expressions are resolved against: its own map
\* when it owns one, the map of its scope otherwise
ScopeMapOf(w, e) ==
    IF e \in DOMAIN w.props THEN w.props[e]
    ELSE IF w.scope[e] \in DOMAIN w.props THEN w.props[w.scope[e]]
    ELSE <<>>

\* the node carries expressions and its scope defines the key of each
Resolvable(w, e) ==
    /\ w.exprs[e] # <<>>
    /\ \A i \in 1..Len(w.exprs[e]) : w.exprs[e][i].key \in DOMAIN ScopeMapOf(w, e)

\* style, tags, listeners and image of e are those of the freshly built
\* node with its expressions applied
HasApplied(w, e) ==
    LET built == [w EXCEPT !.style = [x \in Entities |-> DefaultHtmlStyle],
                           !.tags = [x \in Entities |-> <<>>],
                           !.listeners = [x \in Entities |-> <<>>],
                           !.image = [x \in DOMAIN w.image |-> <<>>]]
        done  == ApplyExpressions(built, e, w.exprs[e], ScopeMapOf(w, e))
    IN  /\ w.style[e] = done.style[e]
        /\ w.tags[e] = done.tags[e]
        /\ w.listeners[e] = done.listeners[e]
        /\ e \in DOMAIN w.image => w.image[e] = done.image[e]

\* C36: after a root has been instantiated and its initial context pass has
\* drained, every node of the tree that carries unresolved expressions
\* whose keys are defined in its scope, the node of the template's root
\* element included, has had those expressions applied (style merged,
\* listener attached, image rebound or tag inserted).
C36_ExpressionsApplied ==
    (mode = "compile" /\ ui.queue = <<>> /\ ~ui.changed) =>
        \A e \in Entities : Resolvable(ui, e) => HasApplied(ui, e)

\* the same for the nodes below the root element
C36_DescendantsApplied ==
    (mode = "compile" /\ ui.queue = <<>> /\ ~ui.changed) =>
        \A e \in Entities \ {"root"} : Resolvable(ui, e) => HasApplied(ui, e)


\* the passes of the cascade a pass of the given event starts, the pass
\* itself included, following subscriber lists to the given nesting depth
RECURSIVE CascadePasses(_, _, _)
CascadePasses(w, ev, depth) ==
    IF ev.kind # "context" \/ depth = 0 THEN 1
    ELSE LET triggered == Notify(w, ev.entity, w.subs[ev.entity])
             Sum[i \in 0..Len(triggered)] ==
                 IF i = 0 THEN 0 ELSE Sum[i - 1] + CascadePasses(w, triggered[i], depth - 1)
         IN  1 + Sum[Len(triggered)]

\* the event that started the running (or last) cascade
Started == IF ui.ran # <<>> THEN ui.ran[1] ELSE Head(ui.queue)

\* C37: the cascade started by a context pass terminates: the context,
\* node and content passes triggered transitively through subscriber lists
\* are finitely many, also when a scope owner is listed in its own
\* subscriber list and when scope owners are nested.  The passes run and
\* queued never exceed the number the subscriber lists give for the start
\* event, and a drained cascade has run exactly that many.
C37_CascadeFinite ==
    (mode = "compile" /\ (ui.ran # <<>> \/ ui.queue # <<>>)) =>
        LET total == CascadePasses(ui, Started, Cardinality(Entities))
        IN  /\ Len(ui.ran) + Len(ui.queue) <= total
            /\ ui.queue = <<>> => Len(ui.ran) = total

\* a drained cascade started by a write to the root: it went through the
\* owner, listed twice by the root and once by itself, to the child
C37_Witness ==
    /\ mode = "compile"
    /\ ui.changed
    /\ ui.queue = <<>>
    /\ ui.ran[1] = Event("context", "root")
    /\ ui.subs["root"] = <<"owner", "owner">>
    /\ Len(ui.subs["owner"]) = 3
    /\ ui.subs["owner"][1] = "owner"
    /\ Len(ui.ran) = 13

----------------------------------------------------------------------------
(* Properties of the expression compiler *)

\* the step runs the observer of the event kind for entity e
Runs(kind, e) ==
    /\ mode = "compile"
    /\ ui.queue # <<>>
    /\ Head(ui.queue) = Event(kind, e)
    /\ ui'.ran = Append(ui.ran, Head(ui.queue))

\* what an expression of e resolves to: against the parent scope when it
\* knows the key, against e's own map otherwise
Resolved(e, expr) ==
    IF expr.key \in DOMAIN ui.props[ui.scope[e]]
    THEN Compile(expr, ui.props[ui.scope[e]])
    ELSE Compile(expr, ui.props[e])

\* the positions of the expressions of e that resolve to a definition of key
Defining(e, key) ==
    {i \in 1..Len(ui.exprs[e]) :
        /\ Resolved(e, ui.exprs[e][i]).kind = "PropertyDefinition"
        /\ ui.exprs[e][i].ident = key}

Last(positions) == CHOOSE i \in positions : \A j \in positions : j <= i

\* C14: in the context pass of a scope owner with a parent scope every
\* expression is resolved against the parent's map first and against the
\* owner's own map only when the parent does not know the key; every
\* resulting property definition is written into the owner's own map (a key
\* the parent knows takes the parent's value over the owner's default), the
\* other keys keep their values, and no map ever loses a key.
C14_ParentFirst ==
    [][mode = "compile" =>
        /\ \A e \in DOMAIN ui.props :
              /\ e \in DOMAIN ui'.props
              /\ DOMAIN ui.props[e] \subseteq DOMAIN ui'.props[e]
        /\ \A e \in DOMAIN ui.props :
              (Runs("context", e) /\ ui.scope[e] \in DOMAIN ui.props) =>
                 /\ \A o \in DOMAIN ui.props \ {e} : ui'.props[o] = ui.props[o]
                 /\ \A key \in DOMAIN ui'.props[e] :
                       IF Defining(e, key) # {}
                       THEN ui'.props[e][key] = Resolved(e, ui.exprs[e][Last(Defining(e, key))]).text
                       ELSE key \in DOMAIN ui.props[e] /\ ui'.props[e][key] = ui.props[e][key]
                 /\ \A i \in 1..Len(ui.exprs[e]) :
                       LET expr == ui.exprs[e][i]
                       IN  (/\ expr.key \in DOMAIN ui.props[ui.scope[e]]
                            /\ expr.ident \notin {<<"w", "i", "d", "t", "h">>}
                            /\ i = Last(Defining(e, expr.ident) \cup {i})) =>
                              ui'.props[e][expr.ident] = ui.props[ui.scope[e]][expr.key]]_vars

\* the owner declared a = 5%, its expression a = {a} met a = 10px in the
\* root's map, and its map now says a = 10px
C14_Witness ==
    /\ mode = "compile"
    /\ ~ui.changed
    /\ ui.ran # <<>>
    /\ ui.ran[1] = Event("context", "owner")
    /\ Token(<<>>, <<"a">>, <<"a">>) \in {ui.exprs["owner"][i] : i \in 1..Len(ui.exprs["owner"])}
    /\ ui.props["root"] = (<<"a">> :> <<"1", "0", "p", "x">>)
    /\ ui.props["owner"] = (<<"a">> :> <<"1", "0", "p", "x">>) @@ (<<"b">> :> <<"x">>)

WidthOf(key) == Token(<<>>, <<"w", "i", "d", "t", "h">>, key)

Range(seq) == {seq[i] : i \in 1..Len(seq)}

\* C16: when the owner's map defines x, the child carries the expression
\* width = {x}, and the owner's context pass and the node pass it triggers
\* have run, the child's computed width is the owner's value of x parsed as
\* a width; this also holds after the host changed a property and the new
\* context pass has run.
C16_WidthFollowsProperty ==
    \A x \in {<<"a">>, <<"b">>} :
        (/\ mode = "compile"
         /\ ui.queue = <<>>
         /\ Event("context", "owner") \in Range(ui.ran)
         /\ WidthOf(x) \in Range(ui.exprs["child"])
         /\ \A t \in Range(ui.exprs["child"]) : t.ident = WidthOf(x).ident => t = WidthOf(x)
         /\ x \in DOMAIN ui.props["owner"]
         /\ parse_val(ui.props["owner"][x]).ok) =>
            ui.style["child"].computed.width = parse_val(ui.props["owner"][x]).val

\* the child's width was 10px, the host changed the property to 5%, and
\* after the new passes the width is 5%
C16_Witness ==
    /\ mode = "compile"
    /\ ui.changed
    /\ ui.queue = <<>>
    /\ WidthOf(<<"a">>) \in Range(ui.exprs["child"])
    /\ ui.previous["child"].computed.width = Val("Px", 10)
    /\ ui.props["owner"][<<"a">>] = <<"5", "%">>
    /\ ui.style["child"].computed.width = Val("Percent", 5)

\* the scope the node pass of e reads
ContextOf(e) == IF e \in DOMAIN ui.props THEN ui.props[e] ELSE ui.props[ui.scope[e]]

\* the expression resolves to a payload the node pass can apply
Dynamic(e, expr) == Compile(expr, ContextOf(e)).kind \in {"Style", "Action", "Path", "Tag"}

\* style, listeners, image and tags of every node
Applied(w) == <<w.style, w.listeners, w.image, w.tags>>

\* C17: in the node pass an expression whose property is undefined, or that
\* resolves to a payload that cannot be dynamic, changes nothing on the node
\* and stops nothing: the pass leaves style, listeners, image and tags
\* exactly as applying the other expressions of the node alone, in order,
\* would (and unchanged when there is no other).
C17_FailedExpressionInert ==
    [][\A e \in Entities :
          (Runs("node", e) /\ e \in DOMAIN ui.style /\ ui.scope[e] # "none") =>
             /\ Applied(ui') =
                   Applied(ApplyExpressions(ui, e,
                              SelectSeq(ui.exprs[e], LAMBDA expr : Dynamic(e, expr)),
                              ContextOf(e)))
             /\ (\A expr \in Range(ui.exprs[e]) : ~Dynamic(e, expr)) => Applied(ui') = Applied(ui)
             /\ ui'.props = ui.props]_vars

\* the child's first expression (an id) cannot be dynamic, its second one
\* set the tag r in the same pass
C17_Witness ==
    /\ mode = "compile"
    /\ ~ui.changed
    /\ Event("node", "child") \in Range(ui.ran)
    /\ Len(ui.exprs["child"]) = 2
    /\ ui.exprs["child"][1] = Token(<<>>, <<"i", "d">>, <<"a">>)
    /\ Compile(ui.exprs["child"][1], ui.props["owner"]).kind = "Id"
    /\ ui.exprs["child"][2].prefix = <<"t", "a", "g">>
    /\ ui.tags["child"] = (<<"r">> :> <<"x">>)

\* ---------------------------------------------------------------------
\* Slots (build.rs): the markup children of a custom node are parked under
\* a holder, spliced in by move_children_to_slot once the component's
\* template is built, and collected again by hotreload.
\*
\* scene is the ECS world: entities are numbers handed out by next, each
\* component is a map from the entities that carry it.
\* ---------------------------------------------------------------------

MaxParked == 2
MaxSiblings == 2
MaxReloads == 1

None == "None"

\* a markup node: no id, target, watch, property definitions, styles,
\* unresolved expressions or text (content is the entry of the template's
\* content table the node's content_id names)
XNode(tag, children) ==
    [tag |-> tag, children |-> children, id |-> None, target |-> None, watch |-> None,
     defs |-> <<>>, styles |-> <<>>, uncompiled |-> <<>>, content |-> <<>>]

\* root is the list of the template's root nodes
HtmlTemplate(properties, root) == [properties |-> properties, root |-> root]

\* the tags of parse_node_type in the order alt tries them
NodeKeywords ==
    << <<<<"n", "o", "d", "e">>, "Node">>, <<<<"i", "m", "a", "g", "e">>, "Image">>,
       <<<<"b", "u", "t", "t", "o", "n">>, "Button">>, <<<<"t", "e", "x", "t">>, "Text">>,
       <<<<"s", "l", "o", "t">>, "Slot">>,
       <<<<"t", "e", "m", "p", "l", "a", "t", "e">>, "Template">> >>

\* parse_node_type: the first keyword the name starts with, else Custom(name)
parse_node_type(name) ==
    LET word == FirstTag(name, NodeKeywords)
    IN  IF word # 0 THEN [kind |-> NodeKeywords[word][2], name |-> <<>>]
        ELSE [kind |-> "Custom", name |-> name]

\* the tag names of the scene's markup
TagNames ==
    [node |-> <<"n", "o", "d", "e">>, slot |-> <<"s", "l", "o", "t">>,
     panel |-> <<"p", "a", "n", "e", "l">>, image |-> <<"i", "m", "a", "g", "e">>,
     text |-> <<"t", "e", "x", "t">>]

NodeType(tag) ==
    LET type == parse_node_type(TagNames[tag]).kind
    IN  CASE type = "Custom" -> "custom"
          [] type = "Slot" -> "slot"
          [] type = "Image" -> "image"
          [] type = "Text" -> "text"
          [] OTHER -> "node"

Remove(map, gone) == [k \in DOMAIN map \ gone |-> map[k]]

\* Commands::spawn_empty; the new entity is w.next
spawn_empty(w) ==
    [w EXCEPT !.entities = @ \cup {w.next},
              !.Children = Insert(@, w.next, <<>>),
              !.next = @ + 1]

Detach(w, child) ==
    IF child \in DOMAIN w.ChildOf
    THEN [w EXCEPT !.Children[w.ChildOf[child]] = SelectSeq(@, LAMBDA c : c # child),
                   !.ChildOf = Remove(@, {child})]
    ELSE w

\* EntityCommands::add_child: the child leaves its parent and is appended
add_child(w, parent, child) ==
    LET free == Detach(w, child)
    IN  [free EXCEPT !.Children[parent] = Append(@, child),
                     !.ChildOf = Insert(@, child, parent)]

RECURSIVE add_children(_, _, _)
add_children(w, parent, list) ==
    IF list = <<>> THEN w
    ELSE add_children(add_child(w, parent, Head(list)), parent, Tail(list))

RECURSIVE Descendants(_, _)
Descendants(w, e) ==
    {e} \cup UNION {Descendants(w, w.Children[e][i]) : i \in 1..Len(w.Children[e])}

\* the components of the world with a value, and those without
Components ==
    {"ChildOf", "Children", "HtmlNode", "UnslotedChildren", "SlotPlaceholder", "InsideSlot",
     "TemplateProperties", "HtmlStyle", "ActiveAnimation", "UiId", "UiTarget",
     "InteractionObverser", "TemplateScope", "TemplateExpresions",
     "TemplatePropertySubscriber", "ContentId"}

Markers == {"FullyBuild", "PressedTimer", "HoverTimer"}

\* the world without the components taken from the entities gone
Strip(w, gone, taken) ==
    [f \in DOMAIN w |->
        IF f \notin taken THEN w[f]
        ELSE IF f \in Markers THEN w[f] \ gone
        ELSE Remove(w[f], gone)]

\* EntityCommands::despawn, which takes the entity's children with it
despawn(w, e) ==
    IF e \notin w.entities THEN w
    ELSE LET gone == Descendants(w, e)
             free == Detach(w, e)
         IN  [Strip(free, gone, Components \cup Markers) EXCEPT !.entities = @ \ gone]

RECURSIVE despawn_related(_, _)
despawn_related(w, e) ==
    IF w.Children[e] = <<>> THEN w
    ELSE despawn_related(despawn(w, Head(w.Children[e])), e)

RECURSIVE build_node(_, _, _, _)
RECURSIVE build_children(_, _, _, _)
build_children(w, scope, entity, nodes) ==
    IF nodes = <<>> THEN w
    ELSE LET child_entity == w.next
             built == build_node(spawn_empty(w), scope, child_entity, Head(nodes))
         IN  build_children(add_child(built, entity, child_entity), scope, entity, Tail(nodes))

\* the builder that keeps the id of a node for the entity declaring it first
connectionsFirstDeclared(w, entity, node) ==
    LET b == w.builder
    IN  [w EXCEPT !.builder =
            [ids |-> IF node.id # None /\ node.id \notin DOMAIN b.ids
                     THEN Insert(b.ids, node.id, entity) ELSE b.ids,
             targets |-> IF node.target # None THEN Insert(b.targets, entity, node.target)
                         ELSE b.targets,
             watch |-> IF node.watch = None THEN b.watch
                       ELSE IF node.watch \in DOMAIN b.watch
                            THEN [b.watch EXCEPT ![node.watch] = Append(@, entity)]
                            ELSE Insert(b.watch, node.watch, <<entity>>),
             subscriber |-> b.subscriber]]

\* build_node, connections: the builder collects the node's id, target, watch
connections(w, entity, node) ==
    LET b == w.builder
    IN  [w EXCEPT !.builder =
            [ids |-> IF node.id # None THEN Insert(b.ids, node.id, entity) ELSE b.ids,
             targets |-> IF node.target # None THEN Insert(b.targets, entity, node.target)
                         ELSE b.targets,
             watch |-> IF node.watch = None THEN b.watch
                       ELSE IF node.watch \in DOMAIN b.watch
                            THEN [b.watch EXCEPT ![node.watch] = Append(@, entity)]
                            ELSE Insert(b.watch, node.watch, <<entity>>),
             subscriber |-> b.subscriber]]

\* the builder on the scope itself in the place of the template's root
parked_scopeOfComponent(scope, entity) == entity

\* the scope of the nodes parked under a custom node: the builder's own
parked_scope(scope, entity) == scope

\* self.subscriber.push(entity) when the condition holds
push_subscriber(w, condition, entity) ==
    IF condition THEN [w EXCEPT !.builder.subscriber = Append(@, entity)] ELSE w

build_node(w, scope, entity, node) ==
    LET timed == [w EXCEPT !.PressedTimer = @ \cup {entity},
                           !.HoverTimer = @ \cup {entity}]
        scoped == IF entity # scope
                  THEN [timed EXCEPT !.TemplateScope = Insert(@, entity, scope)]
                  ELSE timed
        expressions ==
            IF Len(node.uncompiled) > 0
            THEN push_subscriber(
                     [scoped EXCEPT !.TemplateExpresions = Insert(@, entity, node.uncompiled)],
                     TRUE, entity)
            ELSE scoped
        joined == connections(expressions, entity, node)
        styles == [joined EXCEPT !.HtmlStyle = Insert(@, entity, node.styles)]
    IN  CASE NodeType(node.tag) = "custom" ->
                LET custom == [joined EXCEPT !.HtmlNode = Insert(@, entity, node.tag)]
                    parked ==
                        IF node.children = <<>> THEN custom
                        ELSE LET slot_holder == custom.next
                                 held == build_children(spawn_empty(custom),
                                                        parked_scope(scope, entity),
                                                        slot_holder, node.children)
                             IN  [held EXCEPT
                                     !.UnslotedChildren = Insert(@, entity, slot_holder)]
                IN  push_subscriber(
                        [parked EXCEPT !.TemplateProperties = Insert(@, entity, node.defs)],
                        Len(node.uncompiled) > 0, entity)
          [] NodeType(node.tag) = "text" ->
                LET content == trim(node.content)
                IN  build_children(
                        push_subscriber(
                            IF is_templated(content)
                            THEN [styles EXCEPT !.ContentId = Insert(@, entity, content)]
                            ELSE styles,
                            is_templated(content), entity),
                        scope, entity, node.children)
          [] NodeType(node.tag) = "slot" ->
                build_children([joined EXCEPT !.SlotPlaceholder = Insert(@, entity, scope)],
                               scope, entity, node.children)
          [] NodeType(node.tag) = "image" ->
                \* build_animation: none for a style without an atlas
                LET animation_option == IF "atlas" \in Range(node.styles)
                                        THEN <<[frame |-> 0]>> ELSE <<>>
                IN  build_children(IF animation_option # <<>>
                                   THEN [styles EXCEPT !.ActiveAnimation =
                                            Insert(@, entity, animation_option[1])]
                                   ELSE styles,
                                   scope, entity, node.children)
          [] OTHER -> build_children(styles, scope, entity, node.children)

\* TemplateBuilder::new: no ids, targets or watchers collected yet
TemplateBuilder(w) ==
    [w EXCEPT !.builder = [ids |-> <<>>, targets |-> <<>>, watch |-> <<>>,
                           subscriber |-> <<>>]]

Overlay(map, new) ==
    [k \in DOMAIN map \cup DOMAIN new |-> IF k \in DOMAIN new THEN new[k] ELSE map[k]]

\* the entity of each id gets UiId, each target and watcher the entity of
\* the id it names if there is one, and the scope gets the subscriber list
\* and is marked built
finalize_relations(w, scope) ==
    LET b == w.builder
        declared == {b.ids[id] : id \in DOMAIN b.ids}
        resolved == {e \in DOMAIN b.targets : b.targets[e] \in DOMAIN b.ids}
        watched == DOMAIN b.watch \cap DOMAIN b.ids
    IN  [w EXCEPT
            !.UiId = Overlay(@, [e \in declared |->
                                   CHOOSE id \in DOMAIN b.ids : b.ids[id] = e]),
            !.UiTarget = Overlay(@, [e \in resolved |-> b.ids[b.targets[e]]]),
            !.InteractionObverser =
                Overlay(@, [e \in {b.ids[id] : id \in watched} |->
                              b.watch[CHOOSE id \in watched : b.ids[id] = e]]),
            !.TemplatePropertySubscriber = Insert(@, scope, b.subscriber),
            !.FullyBuild = @ \cup {scope}]

\* HashMap::insert in the place of try_insert: the default replaces the value
try_insertReplace(map, key, value) == Insert(map, key, value)

\* HashMap::try_insert: the value of a key that is present stays
try_insert(map, key, value) ==
    IF key \in DOMAIN map THEN map ELSE Insert(map, key, value)

\* the defaults the template declares, for the keys the state lacks
RECURSIVE insert_properties(_, _, _)
insert_properties(state, properties, keys) ==
    IF keys = {} THEN state
    ELSE LET key == CHOOSE k \in keys : TRUE
         IN  insert_properties(try_insert(state, key, properties[key]), properties,
                               keys \ {key})

\* the entities spawn_ui finds: a template handle, its asset loaded, not built
Unbuild(w) ==
    {e \in DOMAIN w.HtmlNode \cap DOMAIN w.TemplateProperties :
        e \notin w.FullyBuild /\ w.HtmlNode[e] \in DOMAIN w.assets}

RECURSIVE spawn_ui(_, _)
spawn_ui(w, unbuild) ==
    IF unbuild = {} THEN w
    ELSE LET root_entity == CHOOSE e \in unbuild : \A o \in unbuild : e <= o
             template == w.assets[w.HtmlNode[root_entity]]
             state == insert_properties(w.TemplateProperties[root_entity],
                                        template.properties, DOMAIN template.properties)
             builder == TemplateBuilder(
                            [w EXCEPT !.TemplateProperties[root_entity] = state])
         IN  spawn_ui(IF Len(template.root) > 0
                      THEN finalize_relations(
                               build_node(builder, root_entity, root_entity,
                                          Head(template.root)),
                               root_entity)
                      ELSE builder,
                      unbuild \ {root_entity})

Placeholders(w, entity) ==
    {s \in DOMAIN w.SlotPlaceholder : w.SlotPlaceholder[s] = entity}

RECURSIVE SlotChildren(_, _, _, _)
SlotChildren(w, entity, slot_parent, list) ==
    IF list = <<>> THEN w
    ELSE SlotChildren(IF Head(list) # slot_parent
                      THEN add_child([w EXCEPT !.InsideSlot = Insert(@, Head(list), entity)],
                                     slot_parent, Head(list))
                      ELSE w,
                      entity, slot_parent, Tail(list))

\* one owner of parked children spliced at the placeholder the query yields
move_to_slot(w, entity, placeholder_entity) ==
    LET slot_holder == w.UnslotedChildren[entity]
        slot_parent == w.ChildOf[placeholder_entity]
        moved == IF slot_holder \in DOMAIN w.Children
                 THEN SlotChildren(w, entity, slot_parent, w.Children[slot_holder])
                 ELSE w
        marked == [moved EXCEPT !.UnslotedChildren = Remove(@, {entity})]
    IN  IF placeholder_entity \notin DOMAIN w.ChildOf THEN w
        ELSE despawn(despawn(marked, placeholder_entity), slot_holder)

\* the owners the system acts on: the others return at the missing placeholder
Slotting(w) == {e \in DOMAIN w.UnslotedChildren : Placeholders(w, e) # {}}

RECURSIVE move_children_to_slot(_, _, _)
move_children_to_slot(w, owners, found) ==
    IF owners = {} THEN w
    ELSE LET entity == CHOOSE e \in owners : \A o \in owners : e <= o
         IN  move_children_to_slot(
                 IF entity \in w.entities /\ found[entity] \in w.entities
                 THEN move_to_slot(w, entity, found[entity])
                 ELSE w,
                 owners \ {entity}, found)

\* the entities inside the slot of an instance: marked for it, in its tree
InsideSlotOf(w, entity) ==
    {e \in Descendants(w, entity) \ {entity} :
        e \in DOMAIN w.InsideSlot /\ w.InsideSlot[e] = entity}

\* the bundle of retain
KeepComps ==
    {"ChildOf", "Children", "HtmlNode", "UnslotedChildren", "SlotPlaceholder", "InsideSlot",
     "TemplateScope"}

\* what HtmlNode requires stays with it
Required == {"TemplateProperties"}

\* retain::<KeepComps>() takes every other component, FullyBuild among
\* them, so that spawn_ui builds again
retain(w, entity) ==
    Strip(w, {entity}, (Components \cup Markers) \ (KeepComps \cup Required))

\* the reload that clears the instance before it looks for slotted children
reload_instanceClearFirst(w, entity, slots) ==
    retain(despawn_related(w, entity), entity)

\* one instance of the modified template; slots is the query's answer
reload_instance(w, entity, slots) ==
    LET slot_holder == w.next
        held == IF Len(slots) > 0
                THEN [add_children(spawn_empty(w), slot_holder, slots)
                         EXCEPT !.UnslotedChildren = Insert(@, entity, slot_holder)]
                ELSE w
    IN  retain(despawn_related(held, entity), entity)

RECURSIVE hotreload(_, _, _)
hotreload(w, instances, slots) ==
    IF instances = {} THEN w
    ELSE LET entity == CHOOSE e \in instances : \A o \in instances : e <= o
         IN  hotreload(IF entity \in w.entities
                       THEN reload_instance(w, entity, slots[entity])
                       ELSE w,
                       instances \ {entity}, slots)

\* the answers of the query for InsideSlot, one per instance: the marked
\* entities in any order of iteration
RECURSIVE Answers(_, _)
Answers(w, instances) ==
    IF instances = {} THEN {<<>>}
    ELSE LET entity == CHOOSE e \in instances : TRUE
         IN  {Insert(rest, entity, order) :
                 rest \in Answers(w, instances \ {entity}),
                 order \in Orders({s \in DOMAIN w.InsideSlot : w.InsideSlot[s] = entity})}

\* every instance of a template, whichever template the events name
ModifiedAny(w) == {e \in DOMAIN w.HtmlNode : w.events # {}}

\* the instances of the templates named by the pending events
Modified(w) == {e \in DOMAIN w.HtmlNode : w.HtmlNode[e] \in w.events}

Leaf(tag) == XNode(tag, <<>>)

\* what a component's template holds next to its <slot/>: plain nodes, and
\* nodes that wrap a <slot/>
Siblings == {Leaf("node"), Leaf("slot"), XNode("node", <<Leaf("slot")>>)}

Panels == {XNode("node", list) : list \in UNION {[1..n -> Siblings] : n \in 0..MaxSiblings}}

\* the outer template: a custom node with its markup children
Mains ==
    {XNode("node", <<XNode("panel", [i \in 1..n |-> Leaf("node")])>>) : n \in 0..MaxParked}

\* the properties a spawner or a custom tag gives, and a template's defaults
Given(value) == {<<>>, [a |-> value]}

Declared == {<<>>, [a |-> "d", b |-> "e"]}

Styled(node, styles) == [node EXCEPT !.styles = styles]

Sprite == Styled(Leaf("image"), <<"atlas">>)

\* a component, its own root and one more root: main holds a panel
Roots ==
    [main |-> {HtmlTemplate(properties,
                            <<XNode("node", <<[Leaf("panel") EXCEPT !.defs = defs]>>)>>) :
                  properties \in Declared, defs \in Given("p")},
     panel |-> {HtmlTemplate(properties, <<root>>) :
                   properties \in Declared, root \in {Leaf("node"), Sprite}},
     side |-> {HtmlTemplate(<<>>, <<root>>) :
                  root \in {XNode("node", <<Leaf("node")>>), Sprite}}]

\* what a node has to do with the id a
Connections == {"none", "id", "target", "watch"}

Connected(node, connection) ==
    CASE connection = "id" -> [node EXCEPT !.id = "a"]
      [] connection = "target" -> [node EXCEPT !.target = "a"]
      [] connection = "watch" -> [node EXCEPT !.watch = "a"]
      [] OTHER -> node

\* a root with two children, the first one with a child of its own, each
\* of the four connected to the id a or not
Relations ==
    [side |-> {HtmlTemplate(<<>>,
                  <<Connected(XNode("node",
                                    <<Connected(XNode("node", <<Connected(Leaf("node"), inner)>>),
                                                first),
                                      Connected(Leaf("node"), second)>>),
                              root)>>) :
                  root \in Connections, first \in Connections, inner \in Connections,
                  second \in Connections}]

\* the node with the expression width="{a}"
Expressive(node, expressive) ==
    IF expressive
    THEN [node EXCEPT !.uncompiled = <<Token(<<>>, <<"w", "i", "d", "t", "h">>, <<"a">>)>>]
    ELSE node

\* a text node with its content
Text(content) == [Leaf("text") EXCEPT !.content = content]

\* what is written between the tags of a custom node: nothing, a node or
\* a text, plain or with a placeholder, each with an expression or without
Enclosed ==
    {<<>>} \cup
    {<<Expressive(child, expressive)>> :
        child \in {Leaf("node"), Text(<<"x">>), Text(<<" ", "{", "a", "}">>)},
        expressive \in BOOLEAN}

\* a template with no root node, with one or with two: main holds a panel
\* with what is written in it, the panel's template a slot
Scoped ==
    [main |-> {HtmlTemplate([a |-> "d"], list) :
                  list \in {<<>>, <<Leaf("node"), Leaf("node")>>}
                         \cup {<<Expressive(XNode("node",
                                                  <<Expressive(XNode("panel", written), custom)>>),
                                            root)>> :
                                  written \in Enclosed, custom \in BOOLEAN, root \in BOOLEAN}},
     panel |-> {HtmlTemplate([a |-> "p"], list) :
                   list \in {<<>>, <<Leaf("node"), Leaf("slot")>>}
                          \cup {<<Expressive(XNode("node", <<Leaf("slot")>>), root)>> :
                                   root \in BOOLEAN}}]

\* templates with no root node, one root node (with a component in it or
\* without) and two root nodes
Framed ==
    [main |-> {HtmlTemplate(<<>>, list) :
                  list \in {<<>>, <<Leaf("node")>>, <<XNode("node", <<Leaf("panel")>>)>>,
                           <<Leaf("node"), Leaf("node")>>}},
     panel |-> {HtmlTemplate(<<>>, list) :
                   list \in {<<>>, <<Leaf("node")>>, <<Leaf("node"), Leaf("node")>>}}]

Library ==
    [slots |-> [main |-> {HtmlTemplate(<<>>, <<root>>) : root \in Mains},
                panel |-> {HtmlTemplate(<<>>, <<root>>) : root \in Panels}],
     roots |-> Roots,
     relations |-> Relations,
     scopes |-> Scoped,
     frames |-> Framed]

Templates(library, id) == Library[library][id]

\* a world of spawned roots, each with the template it names and the
\* properties its spawner gave it
World(library, HtmlNode, properties) ==
    [entities |-> DOMAIN HtmlNode, next |-> Cardinality(DOMAIN HtmlNode) + 1,
     ChildOf |-> <<>>, Children |-> [e \in DOMAIN HtmlNode |-> <<>>],
     HtmlNode |-> HtmlNode, TemplateProperties |-> properties,
     FullyBuild |-> {}, PressedTimer |-> {}, HoverTimer |-> {},
     HtmlStyle |-> <<>>, ActiveAnimation |-> <<>>,
     UiId |-> <<>>, UiTarget |-> <<>>, InteractionObverser |-> <<>>,
     UnslotedChildren |-> <<>>, SlotPlaceholder |-> <<>>, InsideSlot |-> <<>>,
     TemplateScope |-> <<>>, TemplateExpresions |-> <<>>,
     TemplatePropertySubscriber |-> <<>>, ContentId |-> <<>>,
     builder |-> [ids |-> <<>>, targets |-> <<>>, watch |-> <<>>, subscriber |-> <<>>],
     library |-> library, assets |-> <<>>, events |-> {}, system |-> "hotreload",
     reloads |-> 0, before |-> <<>>]

InitSlots ==
    /\ mode = "slots"
    /\ scene = World("slots", 1 :> "main", 1 :> <<>>)
    /\ tick = <<>>
    /\ call = <<>>
    /\ IdleEngine
    /\ IdleLerp
    /\ IdleAnim
    /\ IdleCompile

OtherModes == <<mode, engineVars, lerpVars, animVars, compileVars, tick, call>>

\* the asset server finishes loading a template, between two frames
AssetLoaded ==
    /\ mode = "slots"
    /\ scene.system = "hotreload"
    /\ \E id \in DOMAIN Library[scene.library] \ DOMAIN scene.assets :
          \E template \in Templates(scene.library, id) :
             scene' = [scene EXCEPT !.assets = Insert(@, id, template)]
    /\ UNCHANGED OtherModes

\* a template file changes on disk: AssetEvent::Modified, between two frames
AssetModified ==
    /\ mode = "slots"
    /\ scene.system = "hotreload"
    /\ scene.events = {}
    /\ scene.reloads < MaxReloads
    /\ \E id \in DOMAIN scene.assets : \E template \in Templates(scene.library, id) :
          scene' = [scene EXCEPT !.assets[id] = template, !.events = {id},
                                 !.reloads = @ + 1]
    /\ UNCHANGED OtherModes

HotReload ==
    /\ mode = "slots"
    /\ scene.system = "hotreload"
    /\ \E slots \in Answers(scene, Modified(scene)) :
          /\ scene' = [hotreload(scene, Modified(scene), slots)
                          EXCEPT !.events = {}, !.system = "spawn_ui",
                                 !.before = [e \in Modified(scene) |-> InsideSlotOf(scene, e)]]
    /\ UNCHANGED OtherModes

SpawnUi ==
    /\ mode = "slots"
    /\ scene.system = "spawn_ui"
    /\ scene' = [spawn_ui(scene, Unbuild(scene)) EXCEPT !.system = "move_children_to_slot"]
    /\ UNCHANGED OtherModes

MoveChildrenToSlot ==
    /\ mode = "slots"
    /\ scene.system = "move_children_to_slot"
    /\ \E found \in [Slotting(scene) -> scene.entities] :
          /\ \A e \in Slotting(scene) : found[e] \in Placeholders(scene, e)
          /\ scene' = [move_children_to_slot(scene, Slotting(scene), found)
                          EXCEPT !.system = "hotreload"]
    /\ UNCHANGED OtherModes

NextSlots == AssetLoaded \/ AssetModified \/ HotReload \/ SpawnUi \/ MoveChildrenToSlot

SpecSlots == InitSlots /\ [][NextSlots]_vars

\* two roots spawned with their templates, the first one with properties
InitRoots ==
    /\ mode = "slots"
    /\ \E given \in Given("s") :
          scene = World("roots", <<"main", "side">>, <<given, <<>>>>)
    /\ tick = <<>>
    /\ call = <<>>
    /\ IdleEngine
    /\ IdleLerp
    /\ IdleAnim
    /\ IdleCompile

SpecRoots == InitRoots /\ [][NextSlots]_vars

\* one root, of a template whose nodes are connected by an id
InitRelations ==
    /\ mode = "slots"
    /\ scene = World("relations", <<"side">>, << <<>> >>)
    /\ tick = <<>>
    /\ call = <<>>
    /\ IdleEngine
    /\ IdleLerp
    /\ IdleAnim
    /\ IdleCompile

SpecRelations == InitRelations /\ [][NextSlots]_vars

\* one root, of a template that holds a component with written children
InitScopes ==
    /\ mode = "slots"
    /\ scene = World("scopes", <<"main">>, << <<>> >>)
    /\ tick = <<>>
    /\ call = <<>>
    /\ IdleEngine
    /\ IdleLerp
    /\ IdleAnim
    /\ IdleCompile

SpecScopes == InitScopes /\ [][NextSlots]_vars

\* one root, of a template with no root node, with one or with two
InitFrames ==
    /\ mode = "slots"
    /\ scene = World("frames", <<"main">>, << <<>> >>)
    /\ tick = <<>>
    /\ call = <<>>
    /\ IdleEngine
    /\ IdleLerp
    /\ IdleAnim
    /\ IdleCompile

\* the three systems run in every frame of the Update schedule
SpecFrames ==
    /\ InitFrames
    /\ [][NextSlots]_vars
    /\ WF_vars(HotReload)
    /\ WF_vars(SpawnUi)
    /\ WF_vars(MoveChildrenToSlot)

\* ---------------------------------------------------------------------
\* Properties of the slot systems
\* ---------------------------------------------------------------------

PlaceOf(list, e) == CHOOSE i \in 1..Len(list) : list[i] = e

Splice(list, i, inner) == SubSeq(list, 1, i - 1) \o inner \o SubSeq(list, i + 1, Len(list))

MoveStep == mode = "slots" /\ scene.system = "move_children_to_slot"

\* C18: when move_children_to_slot splices the children parked for a
\* component, they become children of the slot's parent, in their
\* original order, at the place the slot had among its siblings, and
\* the slot and the holder are despawned.
C18_SplicedAtPlaceholder ==
    [][\A entity \in Slotting(scene) :
          MoveStep =>
             \E slot \in Placeholders(scene, entity) :
                LET slot_parent == scene.ChildOf[slot]
                    slot_holder == scene.UnslotedChildren[entity]
                    parked == scene.Children[slot_holder]
                    siblings == scene.Children[slot_parent]
                IN  /\ scene'.Children[slot_parent] =
                          Splice(siblings, PlaceOf(siblings, slot), parked)
                    /\ \A c \in Range(parked) :
                          c \in scene'.entities /\ scene'.ChildOf[c] = slot_parent
                    /\ slot \notin scene'.entities
                    /\ slot_holder \notin scene'.entities]_vars

RECURSIVE HasSlot(_)
HasSlot(node) ==
    \/ NodeType(node.tag) = "slot"
    \/ \E i \in 1..Len(node.children) : HasSlot(node.children[i])

\* C19: once a component is built from a template without <slot/>, at the
\* end of the frame the children parked for it and their holder are gone.
C19_ParkedDropped ==
    mode = "slots" =>
       \A entity \in DOMAIN scene.UnslotedChildren :
          (/\ scene.system = "hotreload"
           /\ entity \in scene.FullyBuild
           /\ ~HasSlot(scene.assets[scene.HtmlNode[entity]].root[1])) =>
             /\ scene.UnslotedChildren[entity] \notin scene.entities
             /\ \A c \in scene.entities :
                   ~(c \in DOMAIN scene.ChildOf
                       /\ scene.ChildOf[c] = scene.UnslotedChildren[entity])

C30_CursorInAtlas ==
    (mode = "animation" /\ anim.cfg.frames = <<>>) =>
        /\ anim.outcome # "panicked"
        /\ anim.frame \in 0..(anim.cfg.cells - 1)
        /\ anim.index \in 0..(anim.cfg.cells - 1)

\* ---------------------------------------------------------------------
\* The Update schedule of HuiPlugin: the systems the plugins add, the one
\* ordering they declare (the chain of BuildPlugin), and an executor that
\* runs a tick in any order that respects it.
\* ---------------------------------------------------------------------

MaxTicks == 1

\* (hotreload, spawn_ui, move_children_to_slot).chain()
Chain == <<"hotreload", "spawn_ui", "move_children_to_slot">>

UpdateSystems ==
    Range(Chain) \cup {"observe_interactions", "observe_on_spawn",
                       "continues_interaction_checking", "update_node_style",
                       "run_animations"}

\* the systems a system is ordered after
Dependencies(system) ==
    {Chain[i] : i \in {i \in 1..Len(Chain) : \E j \in (i + 1)..Len(Chain) : Chain[j] = system}}

\* the observers of CompilePlugin run when the commands of the system that
\* triggered them are applied: those of spawn_ui right after it
Passes(system) ==
    IF system = "spawn_ui" THEN <<"spawn_ui", "compile_context">> ELSE <<system>>

InitSchedule ==
    /\ mode = "schedule"
    /\ tick = [ran |-> <<>>, count |-> 0]
    /\ scene = <<>>
    /\ call = <<>>
    /\ IdleEngine
    /\ IdleLerp
    /\ IdleAnim
    /\ IdleCompile

RunSystem(system) ==
    /\ mode = "schedule"
    /\ system \notin Range(tick.ran)
    /\ Dependencies(system) \subseteq Range(tick.ran)
    /\ tick' = [tick EXCEPT !.ran = @ \o Passes(system)]
    /\ UNCHANGED <<mode, engineVars, lerpVars, animVars, compileVars, scene, call>>

\* the schedule has run every system: the next tick starts
TickDone ==
    /\ mode = "schedule"
    /\ UpdateSystems \subseteq Range(tick.ran)
    /\ tick.count < MaxTicks
    /\ tick' = [ran |-> <<>>, count |-> tick.count + 1]
    /\ UNCHANGED <<mode, engineVars, lerpVars, animVars, compileVars, scene, call>>

ScheduleNext == (\E system \in UpdateSystems : RunSystem(system)) \/ TickDone

SpecSchedule == InitSchedule /\ [][ScheduleNext]_vars

\* pass a has run in this tick whenever pass b has
RunsAfter(b, a) ==
    \A i \in 1..Len(tick.ran) : tick.ran[i] = b => \E j \in 1..(i - 1) : tick.ran[j] = a

\* C23: in every tick the passes run in the order hot-reload detection, tree
\* rebuild, slot splicing, compile cascade, timer update and style recompute,
\* animation advance: the style recompute never before the tick's rebuild,
\* compile cascade and timer update, the animation advance never before the
\* style recompute.
C23_FixedOrder ==
    mode = "schedule" =>
        /\ RunsAfter("spawn_ui", "hotreload")
        /\ RunsAfter("move_children_to_slot", "spawn_ui")
        /\ RunsAfter("compile_context", "move_children_to_slot")
        /\ RunsAfter("continues_interaction_checking", "compile_context")
        /\ RunsAfter("update_node_style", "spawn_ui")
        /\ RunsAfter("update_node_style", "compile_context")
        /\ RunsAfter("update_node_style", "continues_interaction_checking")
        /\ RunsAfter("run_animations", "update_node_style")

\* ---------------------------------------------------------------------
\* The parsers of parse.rs, called on one input each
\* ---------------------------------------------------------------------

\* a decimal number as written: the digits before and after the point
Wholes == {<<"0">>, <<"5">>, <<"2", "0">>}

Fracs == {<<>>, <<"5">>}

\* the units a delay is written with: none, seconds, milliseconds
DelayUnits == {<<>>, <<"s">>, <<"m", "s">>}

\* a length as written: a number and the position of its unit in ValUnits
Parts == [whole : Wholes, frac : Fracs, unit : 1..Len(ValUnits)]

RectParts == {part \in Parts : part.whole # <<"2", "0">> /\ part.unit <= 2}

PartText(part) ==
    part.whole \o (IF part.frac = <<>> THEN <<>> ELSE <<".">> \o part.frac)
               \o ValUnits[part.unit][1]

RECURSIVE Joined(_)
Joined(parts) ==
    IF parts = <<>> THEN <<>>
    ELSE IF Len(parts) = 1 THEN PartText(parts[1])
    ELSE PartText(parts[1]) \o <<" ">> \o Joined(Tail(parts))

Written(parts) == [text |-> Joined(parts), parts |-> parts]

AttributePrefixes == {<<>>, <<"t", "a", "g">>, <<"h", "o", "v", "e", "r">>}

AttributeIdents ==
    {<<"i", "d">>, <<"t", "a", "r", "g", "e", "t">>,
     <<"w", "a", "t", "c", "h">>, <<"s", "r", "c">>,
     <<"o", "n", "_", "p", "r", "e", "s", "s">>,
     <<"w", "i", "d", "t", "h">>,
     <<"f", "l", "e", "x", "_", "d", "i", "r", "e", "c", "t", "i", "o", "n">>,
     <<"f", "l", "e", "x", "_", "w", "r", "a", "p">>,
     <<"g", "r", "i", "d", "_", "a", "u", "t", "o", "_", "f", "l", "o", "w">>,
     <<"f", "o", "o">>}

AttributeValues ==
    {<<"{", "a", "}">>, <<"{", " ", "a", " ", "}">>, <<"{", "a", "}", "x">>,
     <<"{", "a", "}", " ">>, <<"x", "{", "a", "}">>, <<" ", "{", "a", "}">>,
     <<"{", "}">>, <<"{", "a">>, <<"a">>, <<"1", "0", "p", "x">>,
     <<"r", "o", "w">>, <<"c", "o", "l", "u", "m", "n">>,
     <<"r", "o", "w", "_", "r", "e", "v", "e", "r", "s", "e">>,
     <<"c", "o", "l", "u", "m", "n", "_", "r", "e", "v", "e", "r", "s", "e">>,
     <<"w", "r", "a", "p">>, <<"n", "o", "_", "w", "r", "a", "p">>,
     <<"w", "r", "a", "p", "_", "r", "e", "v", "e", "r", "s", "e">>,
     <<"r", "o", "w", "_", "d", "e", "n", "s", "e">>,
     <<"c", "o", "l", "u", "m", "n", "_", "d", "e", "n", "s", "e">>}

TagNameInputs ==
    {<<"n", "o", "d", "e">>, <<"i", "m", "a", "g", "e">>,
     <<"b", "u", "t", "t", "o", "n">>, <<"t", "e", "x", "t">>,
     <<"s", "l", "o", "t">>, <<"t", "e", "m", "p", "l", "a", "t", "e">>,
     <<"t", "e", "x", "t", "_", "i", "n", "p", "u", "t">>,
     <<"b", "u", "t", "t", "o", "n", "_", "p", "r", "i", "m", "a", "r", "y">>,
     <<"n", "o", "d", "e", "s">>, <<"p", "a", "n", "e", "l">>,
     <<"s", "e", "l", "e", "c", "t">>, <<"s", "l", "o", "t", "s">>}

Arguments(parser) ==
    CASE parser = "attribute_from_parts" ->
            [prefix : AttributePrefixes, ident : AttributeIdents, value : AttributeValues]
      [] parser = "parse_node_type" -> {[text |-> name] : name \in TagNameInputs}
      [] parser = "parse_val" ->
            {Written(<<part>>) : part \in Parts}
               \cup {[text |-> <<"0">>, parts |-> <<>>],
                     [text |-> <<"a", "u", "t", "o">>, parts |-> <<>>]}
      [] parser = "parse_ui_rect" ->
            {Written(parts) : parts \in UNION {[1..n -> RectParts] : n \in {1, 2, 4}}}
      [] parser = "parse_delay" ->
            {[text |-> whole \o (IF frac = <<>> THEN <<>> ELSE <<".">> \o frac) \o unit] :
                whole \in Wholes \cup {<<>>}, frac \in Fracs, unit \in DelayUnits}

Parsers ==
    {"attribute_from_parts", "parse_node_type", "parse_val", "parse_ui_rect", "parse_delay"}

Apply(parser, arg) ==
    CASE parser = "attribute_from_parts" ->
            attribute_from_parts(arg.prefix, arg.ident, arg.value)
      [] parser = "parse_node_type" -> parse_node_type(arg.text)
      [] parser = "parse_val" -> parse_val(arg.text)
      [] parser = "parse_ui_rect" -> parse_ui_rect(arg.text)
      [] parser = "parse_delay" -> parse_delay(arg.text)

InitParse ==
    /\ mode = "parse"
    /\ \E parser \in Parsers : \E arg \in Arguments(parser) :
          call = [parser |-> parser, arg |-> arg, out |-> <<>>, done |-> FALSE]
    /\ scene = <<>>
    /\ tick = <<>>
    /\ IdleEngine
    /\ IdleLerp
    /\ IdleAnim
    /\ IdleCompile

ParserCall ==
    /\ mode = "parse"
    /\ ~call.done
    /\ call' = [call EXCEPT !.out = Apply(call.parser, call.arg), !.done = TRUE]
    /\ UNCHANGED <<mode, engineVars, lerpVars, animVars, compileVars, scene, tick>>

SpecParse == InitParse /\ [][ParserCall]_vars

Called(parser) == mode = "parse" /\ call.done /\ call.parser = parser

\* the whole value is {key}: an opening brace, a key without closing brace,
\* the closing brace and nothing else
WholeExpression(value) ==
    /\ Len(value) > 2
    /\ value[1] = "{"
    /\ IndexOf(value, "}") = Len(value)

\* C24: an attribute becomes an unresolved expression exactly when its whole
\* value is {key}, for every attribute key and prefix; a value with text
\* before or after the braces is read literally.
C24_ExpressionIffWholeValue ==
    Called("attribute_from_parts") =>
        (call.out.kind = "Uncompiled" <=> WholeExpression(call.arg.value))

\* C25: the node-kind dispatch gives the built-in kind for the tag names
\* node, image, button, text, slot and template, and Custom with the full
\* tag name for every other name.
C25_KeywordsOnly ==
    Called("parse_node_type") =>
        IF \E i \in 1..Len(NodeKeywords) : call.arg.text = NodeKeywords[i][1]
        THEN \A i \in 1..Len(NodeKeywords) :
                call.arg.text = NodeKeywords[i][1] =>
                   call.out = [kind |-> NodeKeywords[i][2], name |-> <<>>]
        ELSE call.out = [kind |-> "Custom", name |-> call.arg.text]

\* the Val a written length stands for
ValOf(part) ==
    LET number == Rat(NumberOf(part.whole \o part.frac), Pow10(Len(part.frac)))
    IN  [tag |-> ValUnits[part.unit][2], x |-> number[1], q |-> number[2]]

\* C26: parse_val gives, for every number and unit, the Val of that unit
\* with that number, Px(0) for a bare 0 and Auto for auto; a rectangle of
\* one, two or four lengths is all sides, the axis pair (horizontal,
\* vertical) and top, right, bottom, left.
C26_ValOfNumberAndUnit ==
    /\ Called("parse_val") =>
          /\ call.out.ok
          /\ call.out.rest = <<>>
          /\ call.out.val =
                IF Len(call.arg.parts) = 1 THEN ValOf(call.arg.parts[1])
                ELSE IF call.arg.text = <<"0">> THEN Val("Px", 0)
                ELSE Keyword("Auto")
    /\ Called("parse_ui_rect") =>
          LET v == [i \in 1..Len(call.arg.parts) |-> ValOf(call.arg.parts[i])]
          IN  /\ call.out.ok
              /\ call.out.rest = <<>>
              /\ call.out.rect =
                    CASE Len(v) = 1 -> UiRect(v[1], v[1], v[1], v[1])
                      [] Len(v) = 2 -> UiRect(v[2], v[1], v[2], v[1])
                      [] OTHER -> UiRect(v[1], v[2], v[3], v[4])

\* C27: for the style attributes flex_direction, flex_wrap and
\* grid_auto_flow every keyword of the field parses to the variant of that
\* keyword.
C27_KeywordToOwnVariant ==
    Called("attribute_from_parts") =>
        \A i \in 1..Len(EnumIdents) :
           LET table == EnumFields[EnumIdents[i][2]]
           IN  \A k \in 1..Len(table) :
                  (/\ call.arg.prefix # <<"t", "a", "g">>
                   /\ call.arg.ident = EnumIdents[i][1]
                   /\ call.arg.value = table[k][1]) =>
                     /\ call.out.kind = "Style"
                     /\ call.out.style.kind = EnumIdents[i][3]
                     /\ call.out.style.val = Keyword(table[k][2])

\* ---------------------------------------------------------------------
\* The subscribers of a context pass
\* ---------------------------------------------------------------------

\* the events the observer run in this step triggered, in order
Triggered == SubSeq(ui'.queue, 1, Len(ui'.queue) - Len(ui.queue) + 1)

Count(list, x) == Cardinality({i \in 1..Len(list) : list[i] = x})

\* C29: the context pass of a scope owner revisits every entry of its
\* subscriber list: an entry other than the owner that owns a property map
\* gets a context pass, every other entry a node pass, and an entry gets a
\* content pass in addition exactly when it is a text node with content;
\* entities that are not in the list get no pass.
C29_SubscribersRevisited ==
    [][\A e \in Entities :
          Runs("context", e) =>
             \A sub \in Entities :
                LET entries == Count(ui.subs[e], sub)
                    owner   == sub # e /\ sub \in DOMAIN ui.props
                IN  /\ Count(Triggered, Event("context", sub)) = IF owner THEN entries ELSE 0
                    /\ Count(Triggered, Event("node", sub)) = IF owner THEN 0 ELSE entries
                    /\ Count(Triggered, Event("content", sub)) =
                          IF sub \in DOMAIN ui.content THEN entries ELSE 0]_vars

\* the root's context pass went to the owner, the owner's to itself as a
\* node and to its text child as node and content
C29_Witness ==
    /\ mode = "compile"
    /\ ui.queue = <<>>
    /\ {Event("context", "root"), Event("context", "owner"), Event("node", "owner"),
        Event("node", "child"), Event("content", "child")} \subseteq Range(ui.ran)

\* ---------------------------------------------------------------------
\* Relations by id (build.rs, finalize_relations)
\* ---------------------------------------------------------------------

\* the nodes of a markup tree in document order
RECURSIVE Flat(_)
RECURSIVE FlatList(_)
FlatList(nodes) ==
    IF nodes = <<>> THEN <<>> ELSE Flat(Head(nodes)) \o FlatList(Tail(nodes))

Flat(node) == <<node>> \o FlatList(node.children)

\* the entities of a runtime tree, a parent before its children, the
\* children in their order
RECURSIVE PreOrder(_, _)
RECURSIVE PreOrderList(_, _)
PreOrderList(w, list) ==
    IF list = <<>> THEN <<>> ELSE PreOrder(w, Head(list)) \o PreOrderList(w, Tail(list))

PreOrder(w, e) == <<e>> \o PreOrderList(w, w.Children[e])

\* a template of plain nodes: its runtime tree has the shape of the markup
Plain(node) == \A i \in 1..Len(Flat(node)) : NodeType(Flat(node)[i].tag) = "node"

Declaring(nodes, id) == {i \in 1..Len(nodes) : nodes[i].id = id}

\* C22: a root built from a template in which nodes declare the same id is
\* built, one entity per node, and every node with a target or a watch
\* naming a declared id, before or after the declarations, is connected
\* to the entity of the node that declares the id last in document order.
C22_LastDeclaredWins ==
    mode = "slots" =>
       \A scope \in scene.FullyBuild :
          (scene.events = {} /\ Plain(scene.assets[scene.HtmlNode[scope]].root[1])) =>
             LET nodes == Flat(scene.assets[scene.HtmlNode[scope]].root[1])
                 built == PreOrder(scene, scope)
             IN  /\ Len(built) = Len(nodes)
                 /\ \A i \in 1..Len(nodes) :
                       /\ (nodes[i].target # None /\ Declaring(nodes, nodes[i].target) # {}) =>
                             /\ built[i] \in DOMAIN scene.UiTarget
                             /\ scene.UiTarget[built[i]] =
                                   built[Last(Declaring(nodes, nodes[i].target))]
                       /\ (nodes[i].watch # None /\ Declaring(nodes, nodes[i].watch) # {}) =>
                             LET observed == built[Last(Declaring(nodes, nodes[i].watch))]
                             IN  /\ observed \in DOMAIN scene.InteractionObverser
                                 /\ built[i] \in Range(scene.InteractionObverser[observed])

\* a built root whose template declares the id a on the grandchild and,
\* after it, on the second child; the root, before both, targets it and
\* the first child watches it, and both are connected to the second child
C22_Witness ==
    /\ mode = "slots"
    /\ scene.events = {}
    /\ \E scope \in scene.FullyBuild :
          LET nodes == Flat(scene.assets[scene.HtmlNode[scope]].root[1])
              built == PreOrder(scene, scope)
          IN  /\ Len(nodes) = 4
              /\ Len(built) = 4
              /\ nodes[1].target = "a"
              /\ nodes[2].watch = "a"
              /\ nodes[3].id = "a"
              /\ nodes[4].id = "a"
              /\ scene.Children[scope] = <<built[2], built[4]>>
              /\ scene.Children[built[2]] = <<built[3]>>
              /\ scene.UiTarget[scope] = built[4]
              /\ scene.InteractionObverser[built[4]] = <<built[2]>>

\* ---------------------------------------------------------------------
\* Template properties of a root (build.rs, spawn_ui)
\* ---------------------------------------------------------------------

\* C28: when spawn_ui builds a root, afterwards the root is built, its
\* property map has every key the template declares, every key it had
\* before (given by the spawner or by the attributes of the custom tag)
\* keeps its value, and every new key has the template's default.
C28_DefaultsOnlyForAbsentKeys ==
    [][(mode = "slots" /\ scene.system = "spawn_ui") =>
          \A root_entity \in Unbuild(scene) :
             LET template == scene.assets[scene.HtmlNode[root_entity]]
                 given == scene.TemplateProperties[root_entity]
                 state == scene'.TemplateProperties[root_entity]
             IN  /\ root_entity \in scene'.FullyBuild
                 /\ DOMAIN template.properties \subseteq DOMAIN state
                 /\ \A key \in DOMAIN given :
                       key \in DOMAIN state /\ state[key] = given[key]
                 /\ \A key \in DOMAIN state \ DOMAIN given :
                       state[key] = template.properties[key]]_vars

\* a spawned root and a custom node, both built from templates that
\* declare a and b: each kept the a it was given and got the default of b
C28_Witness ==
    /\ mode = "slots"
    /\ scene.events = {}
    /\ \E root, custom \in scene.FullyBuild :
          /\ root \notin DOMAIN scene.ChildOf
          /\ custom \in DOMAIN scene.ChildOf
          /\ scene.assets[scene.HtmlNode[root]].properties = [a |-> "d", b |-> "e"]
          /\ scene.assets[scene.HtmlNode[custom]].properties = [a |-> "d", b |-> "e"]
          /\ scene.TemplateProperties[root] = [a |-> "s", b |-> "e"]
          /\ scene.TemplateProperties[custom] = [a |-> "p", b |-> "e"]

\* ---------------------------------------------------------------------
\* Hot reload of the roots of a template (build.rs, hotreload, spawn_ui)
\* ---------------------------------------------------------------------

\* the components of some entities
StateOf(w, kept) ==
    [f \in Components \cup Markers |->
        IF f \in Markers THEN w[f] \cap kept
        ELSE [k \in DOMAIN w[f] \cap kept |-> w[f][k]]]

\* the runtime trees of the roots of the modified templates
Reloaded(w) ==
    UNION {Descendants(w, o) : o \in {e \in DOMAIN w.HtmlNode : w.HtmlNode[e] \in w.events}}

\* the state that building gives to a root
Runtime(w, e) ==
    \/ e \in w.FullyBuild \cup w.PressedTimer \cup w.HoverTimer
    \/ e \in DOMAIN w.HtmlStyle \cup DOMAIN w.ActiveAnimation

\* the runtime tree of e is what build_node makes of the markup node
RECURSIVE Mirrors(_, _, _)
Mirrors(w, e, node) ==
    /\ e \in w.entities
    /\ e \in w.PressedTimer \cap w.HoverTimer
    /\ IF NodeType(node.tag) = "custom"
       THEN /\ e \in DOMAIN w.HtmlNode /\ w.HtmlNode[e] = node.tag
            /\ w.TemplateProperties[e] = node.defs
       ELSE /\ w.HtmlStyle[e] = node.styles
            /\ (e \in DOMAIN w.ActiveAnimation) =
                  (NodeType(node.tag) = "image" /\ "atlas" \in Range(node.styles))
            /\ Len(w.Children[e]) = Len(node.children)
            /\ \A i \in 1..Len(node.children) :
                  Mirrors(w, w.Children[e][i], node.children[i])

\* the roots inside the runtime tree of a root of a modified template
Nested(w) ==
    {e \in DOMAIN w.HtmlNode :
        \E o \in DOMAIN w.HtmlNode :
           o # e /\ w.HtmlNode[o] \in w.events /\ e \in Descendants(w, o)}

\* the effect of a template-modified event in its tick, on the roots of
\* the template and on the roots among others that are to keep their state
Reloading(others) ==
    /\ (mode = "slots" /\ scene.system = "hotreload" /\ scene'.system = "spawn_ui") =>
          /\ \A e \in DOMAIN scene.HtmlNode \ Nested(scene) :
                scene.HtmlNode[e] \in scene.events =>
                   /\ e \in scene'.entities
                   /\ scene'.Children[e] = <<>>
                   /\ \A c \in Descendants(scene, e) \ ({e} \cup InsideSlotOf(scene, e)) :
                         c \notin scene'.entities
                   /\ ~Runtime(scene', e)
          /\ \A e \in others :
                scene.HtmlNode[e] \notin scene.events =>
                   /\ e \in scene'.entities
                   /\ StateOf(scene', Descendants(scene, e) \ Reloaded(scene)) =
                         StateOf(scene, Descendants(scene, e) \ Reloaded(scene))
    /\ (mode = "slots" /\ scene.system = "spawn_ui") =>
          \A e \in DOMAIN scene.before \cap scene.entities :
             /\ e \in scene'.FullyBuild
             /\ Mirrors(scene', e, scene.assets[scene.HtmlNode[e]].root[1])

\* C21: a template-modified event makes every root of that template, and
\* only those, lose its runtime children, built marker, style, timers and
\* animation state, and the root is rebuilt from the new template in the
\* same tick; the roots of the other templates that are not inside the
\* tree of a reloaded root keep their nodes and state, those of the
\* reloaded roots inside their tree apart.
C21_ReloadsRootsOfTemplate ==
    [][Reloading(DOMAIN scene.HtmlNode \ Nested(scene))]_vars

\* C21 as stated: every root of another template keeps its nodes and state
C21_OthersKeepState ==
    [][Reloading(DOMAIN scene.HtmlNode)]_vars

\* after hotreload in the tick of a modified main: the first root, built
\* before, has no children and no runtime state, the panel it held is
\* gone, the second root still has its child or its animation
C21_Witness ==
    /\ mode = "slots"
    /\ scene.system = "spawn_ui"
    /\ scene.library = "roots"
    /\ 1 \in DOMAIN scene.before
    /\ scene.next > 3
    /\ scene.entities \cap DOMAIN scene.HtmlNode = {1, 2}
    /\ scene.Children[1] = <<>>
    /\ ~Runtime(scene, 1)
    /\ 2 \in scene.FullyBuild
    /\ 2 \in DOMAIN scene.ActiveAnimation

\* ---------------------------------------------------------------------
\* The hover override of a hovered node (styles.rs, update_node_style)
\* ---------------------------------------------------------------------

\* C31: when update_node_style runs for a node that is fully hovered, not
\* pressed at all and not active, the width has the target of the hover
\* override, whatever the pressed and active lists hold for the width.
C31_HoverTargetWhenHovered ==
    [][StyleStep =>
        \A n \in Nodes :
            (/\ hover_timer[n].elapsed = hover_timer[n].max
             /\ pressed_timer[n].elapsed = 0
             /\ ~ui_active[n]
             /\ HasKind(html_style[n].hover, "Width")) =>
                node_style'[n].width = LastTarget(html_style[n].hover, "Width")]_vars

\* C31 for the nodes whose baseline width is a length in pixels and whose
\* pressed and active lists leave the width alone
C31_HoverTargetAlone ==
    [][StyleStep =>
        \A n \in Nodes :
            (/\ hover_timer[n].elapsed = hover_timer[n].max
             /\ pressed_timer[n].elapsed = 0
             /\ ~ui_active[n]
             /\ HasKind(html_style[n].hover, "Width")
             /\ html_style[n].computed.width.tag = "Px"
             /\ ~HasKind(html_style[n].pressed, "Width")
             /\ ~HasKind(html_style[n].active, "Width")) =>
                node_style'[n].width = LastTarget(html_style[n].hover, "Width")]_vars

\* C31 for the nodes whose baseline width is a length in pixels
C31_HoverTargetPixels ==
    [][StyleStep =>
        \A n \in Nodes :
            (/\ hover_timer[n].elapsed = hover_timer[n].max
             /\ pressed_timer[n].elapsed = 0
             /\ ~ui_active[n]
             /\ HasKind(html_style[n].hover, "Width")
             /\ html_style[n].computed.width.tag = "Px") =>
                node_style'[n].width = LastTarget(html_style[n].hover, "Width")]_vars

\* ---------------------------------------------------------------------
\* Overrides compiled again (compile.rs, compile_node; styles.rs,
\* add_style_attr)
\* ---------------------------------------------------------------------

\* the list of the HtmlStyle that a modifier prefix names
ListOf(style, prefix) ==
    CASE Modifier(prefix) = "hover" -> style.hover
      [] Modifier(prefix) = "pressed" -> style.pressed
      [] OTHER -> style.active

\* C32: when the host changed a property and the passes it triggers have
\* run, for a child with a hover, pressed or active width expression whose
\* property parses as a width, the width entry that update_node_style
\* applies last in that list, the one that decides the final style, has
\* the newly compiled value.
C32_LaterOverrideDecides ==
    (mode = "compile" /\ ui.changed /\ ui.queue = <<>>) =>
       \A t \in Range(ui.exprs["child"]) :
          (/\ Modifier(t.prefix) # "none"
           /\ t.ident = <<"w", "i", "d", "t", "h">>
           /\ Event("node", "child") \in Range(ui.ran)
           /\ t.key \in DOMAIN ui.props["owner"]
           /\ parse_val(ui.props["owner"][t.key]).ok) =>
              /\ HasKind(ListOf(ui.style["child"], t.prefix), "Width")
              /\ LastTarget(ListOf(ui.style["child"], t.prefix), "Width") =
                    parse_val(ui.props["owner"][t.key]).val

\* C33: each of the hover, pressed and active lists of every node holds at
\* most one entry per style kind and no entry that is itself wrapped in a
\* modifier.
C33_OneEntryPerKind ==
    mode = "engine" =>
       \A n \in Nodes :
          \A list \in {html_style[n].hover, html_style[n].pressed, html_style[n].active} :
             /\ \A i, j \in 1..Len(list) : list[i].kind = list[j].kind => i = j
             /\ \A i \in 1..Len(list) : list[i].mod = "none"

\* C33 for the modifier variants alone
C33_NoModifierInList ==
    mode = "engine" =>
       \A n \in Nodes :
          \A list \in {html_style[n].hover, html_style[n].pressed, html_style[n].active} :
             \A i \in 1..Len(list) : list[i].mod = "none"

\* ---------------------------------------------------------------------
\* The pressed timer under the hover timer (styles.rs,
\* continues_interaction_checking)
\* ---------------------------------------------------------------------

\* C34: for every node, Button or not, watcher or not, the pressed timer
\* has not run longer than the hover timer, and both have the same max.
C34_PressedWithinHover ==
    mode = "engine" =>
       \A n \in Nodes :
          /\ pressed_timer[n].max = hover_timer[n].max
          /\ pressed_timer[n].elapsed <= hover_timer[n].elapsed

\* a Button that watches another Button: after a tick in which the other
\* one was hovered and it was itself pressed, its pressed timer stands
\* between zero and its hover timer
C34_Witness ==
    /\ mode = "engine"
    /\ "continues_interaction_checking" \in ran
    /\ \E w, t \in Nodes :
          /\ w # t
          /\ Watches(w, t)
          /\ has_interaction[w]
          /\ interaction[t] = "Hovered"
          /\ interaction[w] = "Pressed"
          /\ pressed_timer[w].elapsed > 0
          /\ pressed_timer[w].elapsed < hover_timer[w].elapsed

----------------------------------------------------------------------------
(* Subscriber lists and scopes of a built tree (SpecScopes) *)

NoDuplicates(list) == \A i, j \in 1..Len(list) : list[i] = list[j] => i = j

\* C38: the subscriber list that finalize_relations installs on a scope
\* owner contains each runtime node at most once, for every markup tree
\* (text nodes with attribute expressions and custom nodes with
\* expressions included).
C38_SubscribersOnce ==
    mode = "slots" =>
        \A owner \in DOMAIN scene.TemplatePropertySubscriber :
            NoDuplicates(scene.TemplatePropertySubscriber[owner])

\* an entity listed more than once is a custom node or a text with a
\* placeholder
C38_TwiceOnlyCustomOrText ==
    mode = "slots" =>
        \A owner \in DOMAIN scene.TemplatePropertySubscriber :
            LET list == scene.TemplatePropertySubscriber[owner]
            IN  \A i, j \in 1..Len(list) :
                    (list[i] = list[j] /\ i # j) =>
                        list[i] \in DOMAIN scene.HtmlNode \cup DOMAIN scene.ContentId

\* the entity names a template and the template is loaded
Loaded(e) ==
    /\ mode = "slots"
    /\ e \in scene.entities
    /\ e \in DOMAIN scene.HtmlNode
    /\ scene.HtmlNode[e] \in DOMAIN scene.assets

\* the loaded template of the entity has a root node
Rooted(e) == Loaded(e) /\ Len(scene.assets[scene.HtmlNode[e]].root) > 0

\* the spawned root and the component its template holds
Instantiated == {1, 2}

\* C39: every root entity with an HtmlNode whose template is loaded is
\* eventually marked as fully built by spawn_ui, whatever the number of
\* root nodes of the template (0, 1 or more).
C39_EventuallyBuilt ==
    \A e \in Instantiated : Loaded(e) ~> (e \in scene.FullyBuild \/ ~Loaded(e))

\* the same for the templates with at least one root node
C39_RootedEventuallyBuilt ==
    \A e \in Instantiated : Rooted(e) ~> (e \in scene.FullyBuild \/ ~Rooted(e))

\* once marked, a root is not built again until a hot reload clears the mark
C39_BuiltOnceWhenMarked ==
    [][\A e \in Instantiated :
          (mode = "slots" /\ e \in scene.FullyBuild /\ e \in scene'.FullyBuild) =>
             /\ scene'.Children[e] = scene.Children[e] \/ scene.system # "spawn_ui"
             /\ scene'.TemplatePropertySubscriber[e] = scene.TemplatePropertySubscriber[e]]_vars

\* the entities written between the tags of the component c: parked under
\* its slot holder, or spliced into its slot
WrittenIn(c) ==
    {e \in scene.entities :
        \/ e \in DOMAIN scene.InsideSlot /\ scene.InsideSlot[e] = c
        \/ /\ c \in DOMAIN scene.UnslotedChildren
           /\ e \in DOMAIN scene.ChildOf
           /\ scene.ChildOf[e] = scene.UnslotedChildren[c]}

\* the property map compile_node and compile_text read for the entity: its
\* own when it has one, else the map of its scope
context(w, e) ==
    IF e \in DOMAIN w.TemplateProperties THEN <<w.TemplateProperties[e]>>
    ELSE IF e \in DOMAIN w.TemplateScope /\ w.TemplateScope[e] \in DOMAIN w.TemplateProperties
    THEN <<w.TemplateProperties[w.TemplateScope[e]]>>
    ELSE <<>>

\* the instances of a component written in a template
Instanced == DOMAIN scene.HtmlNode \cap DOMAIN scene.TemplateScope

\* C40: the nodes written as children of a custom component's tag have as
\* scope the root of the template in which they are written (the scope of
\* the component's own node), not the component, in every reachable state,
\* also after they have been spliced into the component's slot and after a
\* hot reload of the component: their expressions and text placeholders
\* resolve against the property map of the instantiation site.
C40_WrittenChildrenScope ==
    mode = "slots" =>
        \A c \in Instanced : \A e \in WrittenIn(c) :
            /\ e \in DOMAIN scene.TemplateScope
            /\ scene.TemplateScope[e] # c
            /\ scene.TemplateScope[e] = scene.TemplateScope[c]
            /\ scene.TemplateScope[c] \in DOMAIN scene.TemplateProperties
            /\ context(scene, e) = <<scene.TemplateProperties[scene.TemplateScope[c]]>>

\* a text with a placeholder and an expression, written in the panel of
\* the root, back in the panel's slot after the panel's template was
\* reloaded and built again
C40_Witness ==
    /\ mode = "slots"
    /\ scene.reloads > 0
    /\ DOMAIN scene.before = {2}
    /\ 2 \in scene.FullyBuild
    /\ \E e \in WrittenIn(2) :
          /\ e \in DOMAIN scene.InsideSlot
          /\ e \in DOMAIN scene.ContentId
          /\ e \in DOMAIN scene.TemplateExpresions
          /\ scene.TemplateScope[e] = 1

====
